---- MODULE Spec2Model ----
(***************************************************************************)
(* State-machine model of the ExpensifyPro single-page application         *)
(* (src/App.tsx): the React state of the App component, its derived        *)
(* values (useMemo) as operators, and one action per event handler that a  *)
(* rendered control can fire.                                              *)
(*                                                                         *)
(* Modelling conventions                                                   *)
(*  - An identifier built from Date.now() (acc..., tx...) is modelled as   *)
(*    the prefix followed by the number of entities created so far plus    *)
(*    one: the clock is strictly increasing between two UI events.         *)
(*  - Amounts are JavaScript numbers; the model uses integers.             *)
(*  - Text (comments, the search box) is a sequence of characters.         *)
(*  - A control fires only while the component that holds it is rendered.  *)
(*    Buttons, inputs and selects stay operable by keyboard while a modal  *)
(*    overlay is shown (no focus trap exists in the source); a clickable   *)
(*    <div> (an account card) is pointer-only and is covered by any        *)
(*    'fixed inset-0' modal overlay.                                       *)
(*  - After every handler React renders: the memos and the effects whose   *)
(*    dependencies changed run before the next event (Commit).             *)
(*  - The clock and the time zone of the browser, and the outcome of a     *)
(*    call of the text-generation client, are chosen by the environment.   *)
(***************************************************************************)
EXTENDS Integers, Sequences, FiniteSets, TLC

VARIABLES
    users,                   \* User[]                      (App.tsx:121)
    currentUser,             \* User | null                 (App.tsx:105)
    accounts,                \* Account[]                   (App.tsx:109)
    transactions,            \* Transaction[]               (App.tsx:117)
    dashboardSearch,         \* string                      (App.tsx:132)
    dashboardAccountFilter,  \* 'all' | account id          (App.tsx:133)
    dashboardTypeFilter,     \* 'all' | TransactionType     (App.tsx:134)
    dashboardModeFilter,     \* 'all' | PaymentMode         (App.tsx:135)
    activeTab,               \* 'dashboard'|'accounts'|'sharing' (App.tsx:138)
    selectedAccountId,       \* string | null               (App.tsx:139)
    isNewAccountModalOpen,   \* boolean                     (App.tsx:140)
    transactionToEdit,       \* Transaction | null          (App.tsx:141)
    isTransactionModalOpen,  \* boolean                     (App.tsx:142)
    isAuthModalOpen,         \* boolean                     (App.tsx:143)
    accountToManage,         \* Account | null              (App.tsx:146)
    isEditMembersModalOpen,  \* boolean                     (App.tsx:147)
    lastChange,              \* history: the last handler call that wrote accounts
                             \* or transactions, and what it replaced
    created,                 \* history: how many accounts, transactions,
                             \* comments and users were created since the page
                             \* was loaded
    currencyCode,            \* string                      (App.tsx:129)
    weekOffset,              \* number                      (App.tsx:136)
    aiInsights,              \* string | null               (App.tsx:149)
    isAiLoading,             \* boolean                     (App.tsx:150)
    aiRequest,               \* the call of the text-generation service that is
                             \* awaited by fetchInsights, or null
    lastCall,                \* history: the last call of a function of
                             \* services/geminiService.ts and how it settled
    chartClock,              \* the time that the last run of the chartData
                             \* memo read with new Date()     (App.tsx:229)
    localStorage,            \* the entries of window.localStorage
    clock,                   \* environment: the time, in hours since the epoch
    timeZone                 \* environment: the time zone of the browser

vars == << users, currentUser, accounts, transactions, dashboardSearch,
           dashboardAccountFilter, dashboardTypeFilter, dashboardModeFilter,
           activeTab, selectedAccountId, isNewAccountModalOpen,
           transactionToEdit, isTransactionModalOpen, isAuthModalOpen,
           accountToManage, isEditMembersModalOpen, lastChange, created,
           currencyCode, weekOffset, aiInsights, isAiLoading, aiRequest,
           lastCall, chartClock, localStorage, clock, timeZone >>

dataVars == << users, accounts, transactions, lastChange, created >>
filterVars == << dashboardSearch, dashboardAccountFilter, dashboardTypeFilter,
                 dashboardModeFilter >>
txModalVars == << transactionToEdit, isTransactionModalOpen >>
memberModalVars == << accountToManage, isEditMembersModalOpen >>
aiVars == << aiInsights, isAiLoading, aiRequest, lastCall >>
envVars == << clock, timeZone >>
sideVars == << currencyCode, weekOffset, aiVars, envVars >>

-----------------------------------------------------------------------------
(* Bounds of the model: the accounts, the transactions, the comments and the  *)
(* users created after the page was loaded                                    *)

MaxAccounts == 1
MaxTransactions == 1
MaxComments == 1
MaxUsers == 1

\* The bits of the mantissa of a number of the model
MantissaBits == 12

\* The weeks that the chart is moved away from the present one, either way
MaxWeekOffset == 1

\* The hours that pass while the page is open
MaxHours == 2

-----------------------------------------------------------------------------
(* Values of the enums of the type declarations *)

CREDIT == "CREDIT"
DEBIT == "DEBIT"
TransactionType == {CREDIT, DEBIT}

PENDING == "PENDING"
APPROVED == "APPROVED"
REJECTED == "REJECTED"
TransactionStatus == {PENDING, APPROVED, REJECTED}

ONLINE == "ONLINE"
CASH == "CASH"
PaymentMode == {ONLINE, CASH}

VIEWER == "VIEWER"
EDITOR == "EDITOR"
OWNER == "OWNER"
MemberRole == {VIEWER, EDITOR, OWNER}

\* JavaScript null for the object-valued state (currentUser, transactionToEdit,
\* accountToManage) and for selectedAccountId.
Null == [null |-> TRUE]
NullId == "null"
\* The value of currentUser?.id when currentUser is null.
Undefined == "undefined"
All == "all"

\* The value of the history variable before any change
NoChange == [op |-> "none"]

-----------------------------------------------------------------------------
(* Sequence helpers standing for Array.prototype methods *)

Range(s) == {s[i] : i \in DOMAIN s}

\* Array.prototype.filter
Filter(s, Keep(_)) == SelectSeq(s, Keep)

\* Array.prototype.find: the first element that satisfies Test, Null for undefined
Find(s, Test(_)) ==
    LET hits == Filter(s, Test) IN IF hits = << >> THEN Null ELSE Head(hits)

\* Array.prototype.some
Some(s, Test(_)) == \E i \in DOMAIN s : Test(s[i])

\* Array.prototype.map
Map(s, F(_)) == [i \in DOMAIN s |-> F(s[i])]

(* Numbers.  An amount is a JavaScript number, a binary floating-point value: *)
(* every sum is rounded to the nearest value that the mantissa holds, ties to *)
(* the even mantissa.  The model keeps MantissaBits bits of the 53 of a       *)
(* double and counts amounts in whole units: integers below 2^MantissaBits    *)
(* are exact, as integers below 2^53 are in the code, and a sum beyond it is  *)
(* rounded as a sum of decimal fractions is in the code.                      *)

RECURSIVE Pow2(_)
Pow2(n) == IF n = 0 THEN 1 ELSE 2 * Pow2(n - 1)

MaxExactInteger == Pow2(MantissaBits)

\* The floating-point value nearest to x
FloatRound(x) ==
    LET a == IF x < 0 THEN 0 - x ELSE x
    IN  IF a < MaxExactInteger THEN x
        ELSE LET e == CHOOSE k \in 1..8 :
                         a >= Pow2(MantissaBits + k - 1) /\ a < Pow2(MantissaBits + k)
                 ulp == Pow2(e)
                 q == a \div ulp
                 r == a % ulp
                 m == IF 2 * r > ulp \/ (2 * r = ulp /\ q % 2 = 1)
                      THEN (q + 1) * ulp ELSE q * ulp
             IN  IF x < 0 THEN 0 - m ELSE m

\* a + b and a - b on numbers
FloatAdd(a, b) == FloatRound(a + b)
FloatSub(a, b) == FloatRound(a - b)

\* Array.prototype.reduce((acc, curr) => acc + F(curr), 0), left to right
ReduceSum(s, F(_)) ==
    LET sum[i \in 0..Len(s)] ==
            IF i = 0 THEN 0 ELSE FloatAdd(sum[i - 1], F(s[i]))
    IN  sum[Len(s)]

-----------------------------------------------------------------------------
(* Text: String.prototype.toLowerCase, trim and includes over character sequences *)

LowerChar(c) == IF c = "A" THEN "a" ELSE IF c = "B" THEN "b" ELSE c
ToLowerCase(s) == [i \in DOMAIN s |-> LowerChar(s[i])]

RECURSIVE TrimLeft(_)
TrimLeft(s) == IF s # << >> /\ Head(s) = " " THEN TrimLeft(Tail(s)) ELSE s
RECURSIVE TrimRight(_)
TrimRight(s) ==
    IF s # << >> /\ s[Len(s)] = " " THEN TrimRight(SubSeq(s, 1, Len(s) - 1)) ELSE s
Trim(s) == TrimRight(TrimLeft(s))

Includes(s, sub) ==
    \E i \in 0..(Len(s) - Len(sub)) : SubSeq(s, i + 1, i + Len(sub)) = sub

-----------------------------------------------------------------------------
(* Initial user directory *)

DefaultUsers ==
    << [id |-> "u1", name |-> "John Doe", email |-> "john@example.com",
        password |-> "password123", isAdmin |-> TRUE],
       [id |-> "u2", name |-> "Jane Manager", email |-> "jane@example.com",
        password |-> "password123", isAdmin |-> FALSE],
       [id |-> "u3", name |-> "Bob Finance", email |-> "bob@example.com",
        password |-> "password123", isAdmin |-> FALSE] >>

-----------------------------------------------------------------------------
(* Computed state (the useMemo values of App) *)

CurrentUserId == IF currentUser = Null THEN Undefined ELSE currentUser.id

IsMemberOf(a, uid) == Some(a.members, LAMBDA m : m.userId = uid)

myAccounts ==
    IF currentUser = Null THEN << >>
    ELSE Filter(accounts,
                LAMBDA a : a.ownerId = currentUser.id \/ IsMemberOf(a, currentUser.id))

selectedAccount == Find(accounts, LAMBDA a : a.id = selectedAccountId)

\* Variant: the role without the test of ownerId
userPermissionInAccount_NoOwnerCheck ==
    IF currentUser = Null \/ selectedAccount = Null THEN VIEWER
    ELSE LET member == Find(selectedAccount.members,
                            LAMBDA m : m.userId = currentUser.id)
         IN  IF member = Null THEN VIEWER ELSE member.role

userPermissionInAccount ==
    IF currentUser = Null \/ selectedAccount = Null THEN VIEWER
    ELSE IF selectedAccount.ownerId = currentUser.id THEN OWNER
    ELSE LET member == Find(selectedAccount.members,
                            LAMBDA m : m.userId = currentUser.id)
         IN  IF member = Null THEN VIEWER ELSE member.role

\* Variant: every role may edit
canEditSelectedAccount_AnyRole == userPermissionInAccount \in MemberRole

canEditSelectedAccount ==
    userPermissionInAccount = OWNER \/ userPermissionInAccount = EDITOR

\* The date field of a transaction saved while the date input was empty: the
\* string '', of which new Date('').getTime() is NaN.
InvalidDate == 0

\* The value that Array.prototype.sort makes of the comparator's result.  A
\* transaction id is modelled by the number that follows 'tx' (13 digits of
\* Date.now(), so the lexicographic order of two ids is the order of their
\* numbers).  With a NaN on either side dateB !== dateA holds and the result
\* dateB - dateA is NaN, which sort reads as +0.
compareTransactions(a, b) ==
    IF a.date = InvalidDate \/ b.date = InvalidDate THEN 0
    ELSE IF b.date # a.date THEN b.date - a.date
    ELSE b.id - a.id

\* Variant: the comparator with its sign reversed
SortsBefore_Ascending(a, b) == compareTransactions(a, b) > 0

\* a goes before b in the sorted list when the comparator is negative; elements
\* that compare as equal keep their order (the sort is stable).
SortsBefore(a, b) == compareTransactions(a, b) < 0

targetAccountIds ==
    IF selectedAccountId # NullId THEN << selectedAccountId >>
    ELSE IF dashboardAccountFilter = All THEN Map(myAccounts, LAMBDA a : a.id)
    ELSE << dashboardAccountFilter >>

filteredTransactions ==
    LET byAccount == Filter(transactions,
                            LAMBDA t : t.accountId \in Range(targetAccountIds))
        bySearch ==
            IF Trim(dashboardSearch) # << >>
            THEN Filter(byAccount,
                        LAMBDA t : Includes(ToLowerCase(t.comment),
                                            ToLowerCase(dashboardSearch)))
            ELSE byAccount
        byType ==
            IF dashboardTypeFilter # All
            THEN Filter(bySearch, LAMBDA t : t.type = dashboardTypeFilter)
            ELSE bySearch
        byMode ==
            IF dashboardModeFilter # All
            THEN Filter(byType, LAMBDA t : t.paymentMode = dashboardModeFilter)
            ELSE byType
    IN  SortSeq(byMode, SortsBefore)

\* Variant: the figures without the filter on status
stats_CountsEveryStatus ==
    LET income == ReduceSum(Filter(filteredTransactions, LAMBDA t : t.type = CREDIT),
                            LAMBDA t : t.amount)
        expenses == ReduceSum(Filter(filteredTransactions, LAMBDA t : t.type = DEBIT),
                              LAMBDA t : t.amount)
    IN  [income |-> income, expenses |-> expenses, balance |-> FloatSub(income, expenses)]

stats ==
    LET approved == Filter(filteredTransactions, LAMBDA t : t.status = APPROVED)
        income == ReduceSum(Filter(approved, LAMBDA t : t.type = CREDIT),
                            LAMBDA t : t.amount)
        expenses == ReduceSum(Filter(approved, LAMBDA t : t.type = DEBIT),
                              LAMBDA t : t.amount)
    IN  [income |-> income, expenses |-> expenses, balance |-> FloatSub(income, expenses)]

\* AccountsView: the balance on the card of account acc
cardBalance(acc) ==
    LET accTxs == Filter(transactions,
                         LAMBDA t : t.accountId = acc.id /\ t.status = APPROVED)
    IN  ReduceSum(accTxs,
                  LAMBDA t : IF t.type = CREDIT THEN t.amount ELSE 0 - t.amount)

\* SharingView: the role shown in the row of account acc
myRole(acc) ==
    IF acc.ownerId = CurrentUserId THEN OWNER
    ELSE LET member == Find(acc.members, LAMBDA m : m.userId = CurrentUserId)
         IN  IF member = Null THEN VIEWER ELSE member.role

-----------------------------------------------------------------------------
(* Which components are rendered (the JSX conditions of App's return) *)

SelectedAccountViewShown == selectedAccountId # NullId /\ selectedAccount # Null
DashboardViewShown == selectedAccountId = NullId /\ activeTab = "dashboard"
AccountsViewShown == selectedAccountId = NullId /\ activeTab = "accounts"
SharingViewShown == selectedAccountId = NullId /\ activeTab = "sharing"
EditMembersModalShown == isEditMembersModalOpen /\ accountToManage # Null

\* Some modal overlay ('fixed inset-0') covers the page
OverlayShown ==
    \/ isAuthModalOpen
    \/ isNewAccountModalOpen
    \/ isTransactionModalOpen
    \/ EditMembersModalShown

-----------------------------------------------------------------------------
(* Dates.  An instant is a number of hours since the epoch; a date is a       *)
(* number of days since the epoch ('YYYY-MM-DD').                             *)

\* The time zones of the model: the hours that local time is ahead of UTC
\* before and from the instant dstStart, at which daylight saving time starts
\* (02:00 local time of day 18 in America/New_York).
TimeZones ==
    { [name |-> "UTC", standard |-> 0, daylight |-> 0, dstStart |-> 0],
      [name |-> "America/New_York", standard |-> -5, daylight |-> -4,
       dstStart |-> (18 * 24) + 7] }

UTC == CHOOSE zone \in TimeZones : zone.name = "UTC"

\* Date.prototype.getTimezoneOffset, negated: the offset of zone at instant t
OffsetAt(zone, t) == IF t < zone.dstStart THEN zone.standard ELSE zone.daylight

\* The instant of a local time of zone; a local time that the start of
\* daylight saving time skips is read with the offset before the transition.
LocalToUTC(zone, wall) ==
    IF wall - zone.standard < zone.dstStart THEN wall - zone.standard
    ELSE IF wall - zone.daylight >= zone.dstStart THEN wall - zone.daylight
    ELSE wall - zone.standard

\* d.setDate(d.getDate() + n): the same local time of day, n days later
setDate(zone, t, n) == LocalToUTC(zone, t + OffsetAt(zone, t) + (24 * n))

\* d.toISOString().split('T')[0]: the date of instant t in UTC
toISODate(t) == t \div 24

\* The date of instant t in the time zone of the browser
toLocalDate(zone, t) == (t + OffsetAt(zone, t)) \div 24

\* chartData: the seven dates of the week that ends offset weeks after now
days(zone, now, offset) ==
    [i \in 1..7 |-> toISODate(setDate(zone, now, (offset * 7) - (7 - i)))]

\* The dates computed by the last run of the chartData memo; weekOffset is a
\* dependency of the memo, so that run has read its present value.
chartDays == days(timeZone, chartClock, weekOffset)

\* chartData: one bucket for each of these dates; filteredTransactions is a
\* dependency of the memo.  The name of a bucket is the label of its date; the
\* model keeps the date.
chartData ==
    Map(chartDays,
        LAMBDA date :
            LET dayTransactions ==
                    Filter(filteredTransactions,
                           LAMBDA t : t.date = date /\ t.status = APPROVED)
            IN  [name |-> date,
                 credit |-> ReduceSum(Filter(dayTransactions,
                                             LAMBDA t : t.type = CREDIT),
                                      LAMBDA t : t.amount),
                 debit |-> ReduceSum(Filter(dayTransactions,
                                            LAMBDA t : t.type = DEBIT),
                                     LAMBDA t : t.amount)])

-----------------------------------------------------------------------------
(* window.localStorage: an entry is null (no entry), a string, or the JSON    *)
(* text of a value.                                                           *)

CurrencyCodes == {"INR", "USD", "EUR", "GBP"}

\* A string stored as it is
StringItem(string) == [string |-> string]

\* JSON.stringify of an object or null, and of an array
JSONstringify(value) ==
    IF value = Null THEN [literal |-> "null"] ELSE [object |-> value]
JSONstringifyArray(array) == [array |-> array]

JSONparse(text) ==
    IF "literal" \in DOMAIN text THEN Null
    ELSE IF "array" \in DOMAIN text THEN text.array
    ELSE text.object

EmptyStorage ==
    [exppro_user |-> Null, exppro_accounts |-> Null, exppro_transactions |-> Null,
     exppro_all_users |-> Null, exppro_currency |-> Null]

\* The useState initialisers
LoadCurrentUser(storage) ==
    LET saved == storage.exppro_user
    IN  IF saved # Null THEN JSONparse(saved) ELSE Null

LoadAccounts(storage) ==
    LET saved == storage.exppro_accounts
        data == IF saved # Null THEN JSONparse(saved) ELSE << >>
    IN  Map(data,
            LAMBDA acc :
                IF "members" \in DOMAIN acc THEN acc
                ELSE IF "sharedWith" \in DOMAIN acc
                THEN [id |-> acc.id, name |-> acc.name, ownerId |-> acc.ownerId,
                      sharedWith |-> acc.sharedWith,
                      members |-> Map(acc.sharedWith,
                                      LAMBDA uid : [userId |-> uid, role |-> EDITOR])]
                ELSE [id |-> acc.id, name |-> acc.name, ownerId |-> acc.ownerId,
                      members |-> << >>])

LoadTransactions(storage) ==
    LET saved == storage.exppro_transactions
    IN  IF saved # Null THEN JSONparse(saved) ELSE << >>

LoadUsers(storage) ==
    LET saved == storage.exppro_all_users
    IN  IF saved # Null THEN JSONparse(saved) ELSE DefaultUsers

LoadCurrencyCode(storage) ==
    LET saved == storage.exppro_currency
    IN  IF saved # Null /\ saved # StringItem("") THEN saved.string ELSE "INR"

\* Variant: the effect without the entry of the currency
Persisted_CurrencyNotWritten(user, accs, txs, allUsers, currency) ==
    [exppro_user |-> JSONstringify(user),
     exppro_accounts |-> JSONstringifyArray(accs),
     exppro_transactions |-> JSONstringifyArray(txs),
     exppro_all_users |-> JSONstringifyArray(allUsers),
     exppro_currency |-> Null]

\* The entries that the persistence effect writes for the given values
Persisted(user, accs, txs, allUsers, currency) ==
    [exppro_user |-> JSONstringify(user),
     exppro_accounts |-> JSONstringifyArray(accs),
     exppro_transactions |-> JSONstringifyArray(txs),
     exppro_all_users |-> JSONstringifyArray(allUsers),
     exppro_currency |-> StringItem(currency)]

-----------------------------------------------------------------------------
(* What React does when a handler has returned: the memos whose dependencies  *)
(* changed are computed again and the effects whose dependencies changed run, *)
(* before the next event is handled.                                          *)

Commit ==
    /\ chartClock' =
           IF clock' = chartClock
              \/ << transactions', selectedAccountId', dashboardAccountFilter',
                    dashboardSearch', dashboardTypeFilter', dashboardModeFilter',
                    accounts', currentUser', weekOffset' >>
                 = << transactions, selectedAccountId, dashboardAccountFilter,
                      dashboardSearch, dashboardTypeFilter, dashboardModeFilter,
                      accounts, currentUser, weekOffset >>
           THEN chartClock
           ELSE clock'
    /\ localStorage' =
           IF << currentUser', accounts', transactions', users', currencyCode' >>
              = << currentUser, accounts, transactions, users, currencyCode >>
           THEN localStorage
           ELSE Persisted(currentUser', accounts', transactions', users',
                          currencyCode')

-----------------------------------------------------------------------------
(* Initial state: the useState initialisers read the stored entries, the      *)
(* first render computes the memos and the persistence effect runs.           *)

\* The value of lastCall before any call
NoCall == [fn |-> "none"]

InitAt(storage, zone, now) ==
    /\ users = LoadUsers(storage)
    /\ currentUser = LoadCurrentUser(storage)
    /\ accounts = LoadAccounts(storage)
    /\ transactions = LoadTransactions(storage)
    /\ currencyCode = LoadCurrencyCode(storage)
    /\ dashboardSearch = << >>
    /\ dashboardAccountFilter = All
    /\ dashboardTypeFilter = All
    /\ dashboardModeFilter = All
    /\ weekOffset = 0
    /\ activeTab = "dashboard"
    /\ selectedAccountId = NullId
    /\ isNewAccountModalOpen = FALSE
    /\ transactionToEdit = Null
    /\ isTransactionModalOpen = FALSE
    /\ isAuthModalOpen = (currentUser = Null)
    /\ accountToManage = Null
    /\ isEditMembersModalOpen = FALSE
    /\ aiInsights = Null
    /\ isAiLoading = FALSE
    /\ aiRequest = Null
    /\ lastCall = NoCall
    /\ lastChange = NoChange
    /\ created = [accounts |-> 0, transactions |-> 0, comments |-> 0, users |-> 0]
    /\ clock = now
    /\ timeZone = zone
    /\ chartClock = now
    /\ localStorage = Persisted(currentUser, accounts, transactions, users,
                                currencyCode)

\* The page is loaded at noon of day 20 in UTC
InitFrom(storage) == InitAt(storage, UTC, (20 * 24) + 12)

Init == InitFrom(EmptyStorage)

-----------------------------------------------------------------------------
(* Inputs typed or chosen by the person at the browser *)

LoginEmails == {"john@example.com", "jane@example.com", "bob@example.com"}
LoginPasswords == {"password123", "letmein"}

\* What is typed in the sign-in and the registration form once people
\* register: an email that a default user has, the same in another case, a
\* new one, and nothing at all (no field of the form is validated).
AuthEmails == {"john@example.com", "John@example.com", "amy@example.com", ""}
AuthNames == {"Amy"}
AccountNames == {"Travel"}
\* Variant: the role selects offering every MemberRole
SelectableRoles_EveryRole == MemberRole

\* The options of both role selects of EditMembersModal
SelectableRoles == {VIEWER, EDITOR}
Tabs == {"dashboard", "accounts", "sharing"}

\* What the transaction form submits: parseFloat(amount), type, paymentMode,
\* comment, date.  A date is the day number of its 'YYYY-MM-DD' string.
FormInputs ==
    { [amount |-> 5, type |-> DEBIT, paymentMode |-> ONLINE,
       comment |-> << "a" >>, date |-> 1],
      [amount |-> 7, type |-> CREDIT, paymentMode |-> CASH,
       comment |-> << "B", "a" >>, date |-> 2] }

\* What the form can also submit: the amount input holds '0' or '-5' (the save
\* button is disabled on an empty amount only), the date input was cleared.
AnyFormInputs ==
    FormInputs \cup
    { [amount |-> 0, type |-> DEBIT, paymentMode |-> ONLINE,
       comment |-> << "a" >>, date |-> 1],
      [amount |-> 0 - 5, type |-> CREDIT, paymentMode |-> ONLINE,
       comment |-> << "a" >>, date |-> 1],
      [amount |-> 5, type |-> DEBIT, paymentMode |-> ONLINE,
       comment |-> << "a" >>, date |-> InvalidDate] }

SearchInputs == { << >>, << "b" >>, << " " >> }

\* What is typed in the 'Add feedback...' box of a transaction row
CommentTexts == { << "o", "k" >> }

-----------------------------------------------------------------------------
(* Authentication and navigation *)

\* Variant: users.find(u => u.email === email)
handleLogin_EmailOnly(email, password) ==
    LET user == Find(users, LAMBDA u : u.email = email)
    IN  IF user # Null
        THEN /\ currentUser' = user
             /\ isAuthModalOpen' = FALSE
        ELSE UNCHANGED << currentUser, isAuthModalOpen >>

handleLogin(email, password) ==
    LET user == Find(users, LAMBDA u : u.email = email /\ u.password = password)
    IN  IF user # Null
        THEN /\ currentUser' = user
             /\ isAuthModalOpen' = FALSE
        ELSE UNCHANGED << currentUser, isAuthModalOpen >>

AuthModal_SignIn ==
    /\ isAuthModalOpen
    /\ \E email \in LoginEmails, password \in LoginPasswords :
           handleLogin(email, password)
    /\ UNCHANGED << dataVars, filterVars, activeTab, selectedAccountId,
                    isNewAccountModalOpen, txModalVars, memberModalVars >>
    /\ UNCHANGED sideVars
    /\ Commit

\* The sign-in form submitted with any of the emails
AuthModal_SignInAny ==
    /\ isAuthModalOpen
    /\ \E email \in LoginEmails \cup AuthEmails, password \in LoginPasswords :
           handleLogin(email, password)
    /\ UNCHANGED << dataVars, filterVars, activeTab, selectedAccountId,
                    isNewAccountModalOpen, txModalVars, memberModalVars >>
    /\ UNCHANGED sideVars
    /\ Commit

\* Variant: a registration that does not look at the emails in use
handleRegister_AnyEmail(name, email, password) ==
    LET newUser == [id |-> "u" \o ToString(Len(users) + 1), name |-> name,
                    email |-> email, password |-> password, isAdmin |-> FALSE]
    IN  /\ users' = Append(users, newUser)
        /\ currentUser' = newUser
        /\ isAuthModalOpen' = FALSE

\* Variant: a registration that signs the new user in without storing it
handleRegister_NotStored(name, email, password) ==
    IF Some(users, LAMBDA u : u.email = email)
    THEN UNCHANGED << users, currentUser, isAuthModalOpen >>
    ELSE LET newUser == [id |-> "u" \o ToString(Len(users) + 1), name |-> name,
                         email |-> email, password |-> password, isAdmin |-> FALSE]
         IN  /\ users' = users
             /\ currentUser' = newUser
             /\ isAuthModalOpen' = FALSE

handleRegister(name, email, password) ==
    IF Some(users, LAMBDA u : u.email = email)
    THEN UNCHANGED << users, currentUser, isAuthModalOpen >>
    ELSE LET newUser == [id |-> "u" \o ToString(Len(users) + 1), name |-> name,
                         email |-> email, password |-> password, isAdmin |-> FALSE]
         IN  /\ users' = Append(users, newUser)
             /\ currentUser' = newUser
             /\ isAuthModalOpen' = FALSE

\* The registration form submitted: nothing happens (an alert) while the two
\* passwords differ.
AuthModal_SignUp ==
    /\ isAuthModalOpen
    /\ created.users < MaxUsers
    /\ \E name \in AuthNames, email \in AuthEmails,
          password \in LoginPasswords, confirmPassword \in LoginPasswords :
           /\ IF password # confirmPassword
              THEN UNCHANGED << users, currentUser, isAuthModalOpen >>
              ELSE handleRegister(name, email, password)
           /\ created' = IF users' = users THEN created
                         ELSE [created EXCEPT !.users = @ + 1]
    /\ UNCHANGED << accounts, transactions, lastChange, filterVars, activeTab,
                    selectedAccountId, isNewAccountModalOpen, txModalVars,
                    memberModalVars >>
    /\ UNCHANGED sideVars
    /\ Commit

\* The 'forgot password' form submitted: an alert, and the form shows the
\* sign-in fields again (state of the modal, not of App).
AuthModal_SendResetLink ==
    /\ isAuthModalOpen
    /\ UNCHANGED vars

\* Variant: a sign-out that keeps the selected account
handleLogout_KeepsSelection ==
    /\ currentUser' = Null
    /\ isAuthModalOpen' = TRUE
    /\ selectedAccountId' = selectedAccountId
    /\ activeTab' = "dashboard"

\* Variant: a sign-out that does not show the sign-in form
handleLogout_FormNotShown ==
    /\ currentUser' = Null
    /\ isAuthModalOpen' = isAuthModalOpen
    /\ selectedAccountId' = NullId
    /\ activeTab' = "dashboard"

handleLogout ==
    /\ currentUser' = Null
    /\ isAuthModalOpen' = TRUE
    /\ selectedAccountId' = NullId
    /\ activeTab' = "dashboard"

Sidebar_SignOut ==
    /\ handleLogout
    /\ UNCHANGED << dataVars, filterVars, isNewAccountModalOpen, txModalVars,
                    memberModalVars >>
    /\ UNCHANGED sideVars
    /\ Commit

Sidebar_Nav ==
    /\ \E tab \in Tabs : activeTab' = tab
    /\ selectedAccountId' = NullId
    /\ UNCHANGED << dataVars, filterVars, currentUser, isAuthModalOpen,
                    isNewAccountModalOpen, txModalVars, memberModalVars >>
    /\ UNCHANGED sideVars
    /\ Commit

DashboardView_ViewAllAccounts ==
    /\ DashboardViewShown
    /\ activeTab' = "accounts"
    /\ UNCHANGED << dataVars, filterVars, currentUser, isAuthModalOpen,
                    selectedAccountId, isNewAccountModalOpen, txModalVars,
                    memberModalVars >>
    /\ UNCHANGED sideVars
    /\ Commit

\* Variant: a card for every account of the application
AccountsView_SelectAccount_AnyCard ==
    /\ AccountsViewShown
    /\ ~OverlayShown
    /\ \E i \in DOMAIN accounts : selectedAccountId' = accounts[i].id
    /\ UNCHANGED << dataVars, filterVars, currentUser, isAuthModalOpen, activeTab,
                    isNewAccountModalOpen, txModalVars, memberModalVars >>
    /\ UNCHANGED sideVars
    /\ Commit

\* The card of an account is a <div onClick>: pointer only.
AccountsView_SelectAccount ==
    /\ AccountsViewShown
    /\ ~OverlayShown
    /\ \E i \in DOMAIN myAccounts : selectedAccountId' = myAccounts[i].id
    /\ UNCHANGED << dataVars, filterVars, currentUser, isAuthModalOpen, activeTab,
                    isNewAccountModalOpen, txModalVars, memberModalVars >>
    /\ UNCHANGED sideVars
    /\ Commit

SelectedAccountView_Back ==
    /\ SelectedAccountViewShown
    /\ selectedAccountId' = NullId
    /\ UNCHANGED << dataVars, filterVars, currentUser, isAuthModalOpen, activeTab,
                    isNewAccountModalOpen, txModalVars, memberModalVars >>
    /\ UNCHANGED sideVars
    /\ Commit

-----------------------------------------------------------------------------
(* Accounts *)

AccountsView_NewAccount ==
    /\ AccountsViewShown
    /\ isNewAccountModalOpen' = TRUE
    /\ UNCHANGED << dataVars, filterVars, currentUser, isAuthModalOpen, activeTab,
                    selectedAccountId, txModalVars, memberModalVars >>
    /\ UNCHANGED sideVars
    /\ Commit

NewAccountModal_Cancel ==
    /\ isNewAccountModalOpen
    /\ isNewAccountModalOpen' = FALSE
    /\ UNCHANGED << dataVars, filterVars, currentUser, isAuthModalOpen, activeTab,
                    selectedAccountId, txModalVars, memberModalVars >>
    /\ UNCHANGED sideVars
    /\ Commit

\* Variant: the new account owned by the first registered user
createAccount_FirstUserOwns(name) ==
    IF currentUser = Null
    THEN UNCHANGED << accounts, isNewAccountModalOpen >>
    ELSE LET newAcc == [id |-> "acc" \o ToString(Len(accounts) + 1),
                        name |-> name,
                        ownerId |-> users[1].id,
                        members |-> << >>]
         IN  /\ accounts' = Append(accounts, newAcc)
             /\ isNewAccountModalOpen' = FALSE

createAccount(name) ==
    IF currentUser = Null
    THEN UNCHANGED << accounts, isNewAccountModalOpen >>
    ELSE LET newAcc == [id |-> "acc" \o ToString(Len(accounts) + 1),
                        name |-> name,
                        ownerId |-> currentUser.id,
                        members |-> << >>]
         IN  /\ accounts' = Append(accounts, newAcc)
             /\ isNewAccountModalOpen' = FALSE

NewAccountModal_Create ==
    /\ isNewAccountModalOpen
    /\ created.accounts < MaxAccounts
    /\ \E name \in AccountNames : createAccount(name)
    /\ lastChange' = IF currentUser = Null THEN lastChange
                     ELSE [op |-> "createAccount",
                           acc |-> "acc" \o ToString(Len(accounts) + 1)]
    /\ created' = IF currentUser = Null THEN created
                  ELSE [created EXCEPT !.accounts = @ + 1]
    /\ UNCHANGED << users, transactions, filterVars, currentUser, isAuthModalOpen,
                    activeTab, selectedAccountId, txModalVars, memberModalVars >>
    /\ UNCHANGED sideVars
    /\ Commit

-----------------------------------------------------------------------------
(* Members *)

SharingView_ManageTeam ==
    /\ SharingViewShown
    /\ \E i \in DOMAIN myAccounts :
           /\ myAccounts[i].ownerId = CurrentUserId
           /\ accountToManage' = myAccounts[i]
    /\ isEditMembersModalOpen' = TRUE
    /\ UNCHANGED << dataVars, filterVars, currentUser, isAuthModalOpen, activeTab,
                    selectedAccountId, isNewAccountModalOpen, txModalVars >>
    /\ UNCHANGED sideVars
    /\ Commit

SelectedAccountView_ManageTeam ==
    /\ SelectedAccountViewShown
    /\ selectedAccount.ownerId = CurrentUserId
    /\ accountToManage' = selectedAccount
    /\ isEditMembersModalOpen' = TRUE
    /\ UNCHANGED << dataVars, filterVars, currentUser, isAuthModalOpen, activeTab,
                    selectedAccountId, isNewAccountModalOpen, txModalVars >>
    /\ UNCHANGED sideVars
    /\ Commit

EditMembersModal_Close ==
    /\ EditMembersModalShown
    /\ isEditMembersModalOpen' = FALSE
    /\ UNCHANGED << dataVars, filterVars, currentUser, isAuthModalOpen, activeTab,
                    selectedAccountId, isNewAccountModalOpen, txModalVars,
                    accountToManage >>
    /\ UNCHANGED sideVars
    /\ Commit

\* Variant: the new entry appended without dropping the old one
withMember_KeepsOldEntry(members, userId, role) ==
    Append(members, [userId |-> userId, role |-> role])

\* [...members.filter(m => m.userId !== userId), { userId, role }]
withMember(members, userId, role) ==
    Append(Filter(members, LAMBDA m : m.userId # userId),
           [userId |-> userId, role |-> role])

\* members.filter(m => m.userId !== userId)
withoutMember(members, userId) == Filter(members, LAMBDA m : m.userId # userId)

\* Variant: shareAccount without the update of the snapshot
shareAccount_SnapshotKept(accountId, userId, role) ==
    /\ accounts' = Map(accounts,
                       LAMBDA a : IF a.id = accountId
                                  THEN [a EXCEPT !.members = withMember(@, userId, role)]
                                  ELSE a)
    /\ accountToManage' = accountToManage

shareAccount(accountId, userId, role) ==
    /\ accounts' = Map(accounts,
                       LAMBDA a : IF a.id = accountId
                                  THEN [a EXCEPT !.members = withMember(@, userId, role)]
                                  ELSE a)
    /\ accountToManage' =
           IF accountToManage # Null /\ accountToManage.id = accountId
           THEN [accountToManage EXCEPT !.members = withMember(@, userId, role)]
           ELSE accountToManage

\* Variant: prev.filter(a => a.id !== accountId)
removeMember_DropsAccount(accountId, userId) ==
    /\ accounts' = Filter(accounts, LAMBDA a : a.id # accountId)
    /\ accountToManage' = accountToManage

removeMember(accountId, userId) ==
    /\ accounts' = Map(accounts,
                       LAMBDA a : IF a.id = accountId
                                  THEN [a EXCEPT !.members = withoutMember(@, userId)]
                                  ELSE a)
    /\ accountToManage' =
           IF accountToManage # Null /\ accountToManage.id = accountId
           THEN [accountToManage EXCEPT !.members = withoutMember(@, userId)]
           ELSE accountToManage

\* Variant: the options without the test of ownerId
addableUsers_OwnerOffered ==
    Filter(users, LAMBDA u : ~IsMemberOf(accountToManage, u.id))

\* The users offered by the 'Add Existing User' select
addableUsers ==
    Filter(users, LAMBDA u : /\ u.id # accountToManage.ownerId
                             /\ ~IsMemberOf(accountToManage, u.id))

\* History: the role that accounts records for userId in account accountId
recordedRole(accountId, userId) ==
    LET a == Find(accounts, LAMBDA x : x.id = accountId)
        m == IF a = Null THEN Null ELSE Find(a.members, LAMBDA x : x.userId = userId)
    IN  IF m = Null THEN "none" ELSE m.role

\* The role select of a member row: onChange fires with the other role.
EditMembersModal_ChangeRole ==
    /\ EditMembersModalShown
    /\ \E i \in DOMAIN accountToManage.members, role \in SelectableRoles :
           /\ role # accountToManage.members[i].role
           /\ shareAccount(accountToManage.id, accountToManage.members[i].userId, role)
           /\ lastChange' = [op |-> "shareAccount", acc |-> accountToManage.id,
                             user |-> accountToManage.members[i].userId,
                             from |-> recordedRole(accountToManage.id,
                                                   accountToManage.members[i].userId)]
    /\ UNCHANGED << users, transactions, created, filterVars, currentUser, isAuthModalOpen,
                    activeTab, selectedAccountId, isNewAccountModalOpen, txModalVars,
                    isEditMembersModalOpen >>
    /\ UNCHANGED sideVars
    /\ Commit

\* 'Add Existing User' with the role chosen in the select next to it.
EditMembersModal_AddUser ==
    /\ EditMembersModalShown
    /\ \E i \in DOMAIN addableUsers, selectedRole \in SelectableRoles :
           /\ shareAccount(accountToManage.id, addableUsers[i].id, selectedRole)
           /\ lastChange' = [op |-> "shareAccount", acc |-> accountToManage.id,
                             user |-> addableUsers[i].id,
                             from |-> recordedRole(accountToManage.id,
                                                   addableUsers[i].id)]
    /\ UNCHANGED << users, transactions, created, filterVars, currentUser, isAuthModalOpen,
                    activeTab, selectedAccountId, isNewAccountModalOpen, txModalVars,
                    isEditMembersModalOpen >>
    /\ UNCHANGED sideVars
    /\ Commit

EditMembersModal_Remove ==
    /\ EditMembersModalShown
    /\ \E i \in DOMAIN accountToManage.members :
           /\ removeMember(accountToManage.id, accountToManage.members[i].userId)
           /\ lastChange' = [op |-> "removeMember", acc |-> accountToManage.id,
                             user |-> accountToManage.members[i].userId,
                             from |-> recordedRole(accountToManage.id,
                                                   accountToManage.members[i].userId)]
    /\ UNCHANGED << users, transactions, created, filterVars, currentUser, isAuthModalOpen,
                    activeTab, selectedAccountId, isNewAccountModalOpen, txModalVars,
                    isEditMembersModalOpen >>
    /\ UNCHANGED sideVars
    /\ Commit

-----------------------------------------------------------------------------
(* Transactions *)

SelectedAccountView_AddTransaction ==
    /\ SelectedAccountViewShown
    /\ canEditSelectedAccount
    /\ transactionToEdit' = Null
    /\ isTransactionModalOpen' = TRUE
    /\ UNCHANGED << dataVars, filterVars, currentUser, isAuthModalOpen, activeTab,
                    selectedAccountId, isNewAccountModalOpen, memberModalVars >>
    /\ UNCHANGED sideVars
    /\ Commit

SelectedAccountView_EditTransaction ==
    /\ SelectedAccountViewShown
    /\ canEditSelectedAccount
    /\ \E i \in DOMAIN filteredTransactions :
           transactionToEdit' = filteredTransactions[i]
    /\ isTransactionModalOpen' = TRUE
    /\ UNCHANGED << dataVars, filterVars, currentUser, isAuthModalOpen, activeTab,
                    selectedAccountId, isNewAccountModalOpen, memberModalVars >>
    /\ UNCHANGED sideVars
    /\ Commit

TransactionModal_Cancel ==
    /\ isTransactionModalOpen
    /\ isTransactionModalOpen' = FALSE
    /\ transactionToEdit' = Null
    /\ UNCHANGED << dataVars, filterVars, currentUser, isAuthModalOpen, activeTab,
                    selectedAccountId, isNewAccountModalOpen, memberModalVars >>
    /\ UNCHANGED sideVars
    /\ Commit

\* Variant: { ...t, ...data }
edited_KeepsStatus(t, data) ==
    [t EXCEPT !.amount = data.amount, !.type = data.type,
              !.paymentMode = data.paymentMode, !.comment = data.comment,
              !.date = data.date]

\* { ...t, ...data, status: PENDING }
edited(t, data) ==
    [t EXCEPT !.amount = data.amount, !.type = data.type,
              !.paymentMode = data.paymentMode, !.comment = data.comment,
              !.date = data.date, !.status = PENDING]

saveTransaction(data) ==
    IF currentUser = Null \/ selectedAccountId = NullId
    THEN UNCHANGED << transactions, isTransactionModalOpen, transactionToEdit >>
    ELSE /\ IF transactionToEdit # Null
            THEN transactions' =
                     Map(transactions,
                         LAMBDA t : IF t.id = transactionToEdit.id
                                    THEN edited(t, data) ELSE t)
            ELSE LET newTx == [id |-> Len(transactions) + 1,
                               accountId |-> selectedAccountId,
                               amount |-> data.amount,
                               type |-> data.type,
                               paymentMode |-> data.paymentMode,
                               comment |-> data.comment,
                               date |-> data.date,
                               status |-> PENDING,
                               comments |-> << >>,
                               createdBy |-> currentUser.id]
                 IN  transactions' = Append(transactions, newTx)
         /\ isTransactionModalOpen' = FALSE
         /\ transactionToEdit' = Null

\* History: the status that transactions records for transaction txId
recordedStatus(txId) ==
    LET t == Find(transactions, LAMBDA x : x.id = txId)
    IN  IF t = Null THEN "none" ELSE t.status

\* The save button is disabled while the amount is empty or the comment is blank.
\* inputs are the submitted values considered, limit bounds the transactions
\* created.
TransactionModal_Submit(inputs, limit) ==
    /\ isTransactionModalOpen
    /\ transactionToEdit = Null => created.transactions < limit
    /\ \E data \in inputs :
           /\ Trim(data.comment) # << >>
           /\ saveTransaction(data)
    /\ lastChange' =
           IF currentUser = Null \/ selectedAccountId = NullId THEN lastChange
           ELSE IF transactionToEdit # Null
                THEN [op |-> "saveTransaction", tx |-> transactionToEdit.id,
                      from |-> recordedStatus(transactionToEdit.id)]
                ELSE [op |-> "saveTransaction", tx |-> Len(transactions) + 1,
                      from |-> "none"]
    /\ created' =
           IF currentUser = Null \/ selectedAccountId = NullId \/ transactionToEdit # Null
           THEN created
           ELSE [created EXCEPT !.transactions = @ + 1]
    /\ UNCHANGED << users, accounts, filterVars, currentUser, isAuthModalOpen,
                    activeTab, selectedAccountId, isNewAccountModalOpen,
                    memberModalVars >>
    /\ UNCHANGED sideVars
    /\ Commit

TransactionModal_Save == TransactionModal_Submit(FormInputs, MaxTransactions)

TransactionModal_SaveAny ==
    TransactionModal_Submit(AnyFormInputs, MaxTransactions + 1)

\* Variant: prev.map(t => ({ ...t, status }))
updateTransactionStatus_EveryRow(txId, status) ==
    transactions' = Map(transactions, LAMBDA t : [t EXCEPT !.status = status])

updateTransactionStatus(txId, status) ==
    transactions' = Map(transactions,
                        LAMBDA t : IF t.id = txId THEN [t EXCEPT !.status = status]
                                   ELSE t)

\* Variant: the buttons on every row
decidableRows_AnyStatus ==
    IF canEditSelectedAccount THEN filteredTransactions ELSE << >>

\* The rows on which the approve and reject buttons are rendered
decidableRows ==
    IF canEditSelectedAccount
    THEN Filter(filteredTransactions, LAMBDA t : t.status = PENDING)
    ELSE << >>

SelectedAccountView_Approve ==
    /\ SelectedAccountViewShown
    /\ \E i \in DOMAIN decidableRows :
           /\ updateTransactionStatus(decidableRows[i].id, APPROVED)
           /\ lastChange' = [op |-> "updateTransactionStatus",
                             tx |-> decidableRows[i].id,
                             from |-> recordedStatus(decidableRows[i].id)]
    /\ UNCHANGED << users, accounts, created, filterVars, currentUser, isAuthModalOpen,
                    activeTab, selectedAccountId, isNewAccountModalOpen, txModalVars,
                    memberModalVars >>
    /\ UNCHANGED sideVars
    /\ Commit

SelectedAccountView_Reject ==
    /\ SelectedAccountViewShown
    /\ \E i \in DOMAIN decidableRows :
           /\ updateTransactionStatus(decidableRows[i].id, REJECTED)
           /\ lastChange' = [op |-> "updateTransactionStatus",
                             tx |-> decidableRows[i].id,
                             from |-> recordedStatus(decidableRows[i].id)]
    /\ UNCHANGED << users, accounts, created, filterVars, currentUser, isAuthModalOpen,
                    activeTab, selectedAccountId, isNewAccountModalOpen, txModalVars,
                    memberModalVars >>
    /\ UNCHANGED sideVars
    /\ Commit

\* Variant: the new comment put before the others
addComment_Prepends(txId, text) ==
    IF currentUser = Null
    THEN UNCHANGED transactions
    ELSE LET newComment == [id |-> "c" \o ToString(created.comments + 1),
                            userId |-> currentUser.id,
                            userName |-> currentUser.name,
                            text |-> text]
         IN  transactions' =
                 Map(transactions,
                     LAMBDA t : IF t.id = txId
                                THEN [t EXCEPT !.comments = << newComment >> \o @]
                                ELSE t)

addComment(txId, text) ==
    IF currentUser = Null
    THEN UNCHANGED transactions
    ELSE LET newComment == [id |-> "c" \o ToString(created.comments + 1),
                            userId |-> currentUser.id,
                            userName |-> currentUser.name,
                            text |-> text]
         IN  transactions' =
                 Map(transactions,
                     LAMBDA t : IF t.id = txId
                                THEN [t EXCEPT !.comments = Append(@, newComment)]
                                ELSE t)

\* SEND, or Enter in the box, of a row: nothing happens while the box is empty.
SelectedAccountView_SendComment ==
    /\ SelectedAccountViewShown
    /\ created.comments < MaxComments
    /\ \E i \in DOMAIN filteredTransactions, text \in CommentTexts :
           /\ text # << >>
           /\ addComment(filteredTransactions[i].id, text)
           /\ lastChange' = IF currentUser = Null THEN lastChange
                            ELSE [op |-> "addComment",
                                  tx |-> filteredTransactions[i].id]
    /\ created' = IF currentUser = Null THEN created
                  ELSE [created EXCEPT !.comments = @ + 1]
    /\ UNCHANGED << users, accounts, filterVars, currentUser, isAuthModalOpen,
                    activeTab, selectedAccountId, isNewAccountModalOpen, txModalVars,
                    memberModalVars >>
    /\ UNCHANGED sideVars
    /\ Commit

-----------------------------------------------------------------------------
(* Filters of the dashboard and of the selected account *)

DashboardView_SetAccountFilter ==
    /\ DashboardViewShown
    /\ \E v \in {All} \cup {myAccounts[i].id : i \in DOMAIN myAccounts} :
           /\ v # dashboardAccountFilter
           /\ dashboardAccountFilter' = v
    /\ UNCHANGED << dataVars, dashboardSearch, dashboardTypeFilter,
                    dashboardModeFilter, currentUser, isAuthModalOpen, activeTab,
                    selectedAccountId, isNewAccountModalOpen, txModalVars,
                    memberModalVars >>
    /\ UNCHANGED sideVars
    /\ Commit

SetDashboardSearch ==
    /\ DashboardViewShown \/ SelectedAccountViewShown
    /\ \E v \in SearchInputs :
           /\ v # dashboardSearch
           /\ dashboardSearch' = v
    /\ UNCHANGED << dataVars, dashboardAccountFilter, dashboardTypeFilter,
                    dashboardModeFilter, currentUser, isAuthModalOpen, activeTab,
                    selectedAccountId, isNewAccountModalOpen, txModalVars,
                    memberModalVars >>
    /\ UNCHANGED sideVars
    /\ Commit

SetDashboardTypeFilter ==
    /\ DashboardViewShown \/ SelectedAccountViewShown
    /\ \E v \in {All} \cup TransactionType :
           /\ v # dashboardTypeFilter
           /\ dashboardTypeFilter' = v
    /\ UNCHANGED << dataVars, dashboardSearch, dashboardAccountFilter,
                    dashboardModeFilter, currentUser, isAuthModalOpen, activeTab,
                    selectedAccountId, isNewAccountModalOpen, txModalVars,
                    memberModalVars >>
    /\ UNCHANGED sideVars
    /\ Commit

SetDashboardModeFilter ==
    /\ DashboardViewShown \/ SelectedAccountViewShown
    /\ \E v \in {All} \cup PaymentMode :
           /\ v # dashboardModeFilter
           /\ dashboardModeFilter' = v
    /\ UNCHANGED << dataVars, dashboardSearch, dashboardAccountFilter,
                    dashboardTypeFilter, currentUser, isAuthModalOpen, activeTab,
                    selectedAccountId, isNewAccountModalOpen, txModalVars,
                    memberModalVars >>
    /\ UNCHANGED sideVars
    /\ Commit

-----------------------------------------------------------------------------
(* The application started on an empty localStorage: every handler that a     *)
(* rendered control can fire.                                                 *)

-----------------------------------------------------------------------------
(* DashboardView: the week of the chart *)

DashboardView_PreviousWeek ==
    /\ DashboardViewShown
    /\ weekOffset > 0 - MaxWeekOffset
    /\ weekOffset' = weekOffset - 1
    /\ UNCHANGED << dataVars, filterVars, currentUser, isAuthModalOpen, activeTab,
                    selectedAccountId, isNewAccountModalOpen, txModalVars,
                    memberModalVars, currencyCode, aiVars, envVars >>
    /\ Commit

DashboardView_NextWeek ==
    /\ DashboardViewShown
    /\ weekOffset < MaxWeekOffset
    /\ weekOffset' = weekOffset + 1
    /\ UNCHANGED << dataVars, filterVars, currentUser, isAuthModalOpen, activeTab,
                    selectedAccountId, isNewAccountModalOpen, txModalVars,
                    memberModalVars, currencyCode, aiVars, envVars >>
    /\ Commit

DashboardView_Today ==
    /\ DashboardViewShown
    /\ weekOffset # 0
    /\ weekOffset' = 0
    /\ UNCHANGED << dataVars, filterVars, currentUser, isAuthModalOpen, activeTab,
                    selectedAccountId, isNewAccountModalOpen, txModalVars,
                    memberModalVars, currencyCode, aiVars, envVars >>
    /\ Commit

\* Environment: an hour passes while the page is open.  Nothing is rendered.
LastInstant == (20 * 24) + 22 + MaxHours

Tick ==
    /\ clock < LastInstant
    /\ clock' = clock + 1
    /\ UNCHANGED << users, currentUser, accounts, transactions, filterVars,
                    activeTab, selectedAccountId, isNewAccountModalOpen,
                    txModalVars, isAuthModalOpen, memberModalVars, lastChange,
                    created, currencyCode, weekOffset, aiVars, chartClock,
                    localStorage, timeZone >>

-----------------------------------------------------------------------------
(* services/geminiService.ts.  A text is a record; a generated text is        *)
(* modelled by the prompt it was generated from.  The environment of a call   *)
(* decides whether new GoogleGenAI() returns (it throws when the build holds  *)
(* no API key) and how the request of generateContent settles.                *)

Text(string) == [text |-> string]
Generated(prompt) == [text |-> "generated", prompt |-> prompt]

Responses == {"text", "empty", "failure"}

Rejected == [settled |-> "rejected"]
Fulfilled(value) == [settled |-> "fulfilled", value |-> value]

\* How the promise of a service function settles: the constructor is called
\* before the try block, the request is awaited inside it.
serviceCall(prompt, constructed, response, fallback, placeholder) ==
    IF ~constructed THEN Rejected
    ELSE IF response = "failure" THEN Fulfilled(Text(placeholder))
    ELSE IF response = "empty" THEN Fulfilled(Text(fallback))
    ELSE Fulfilled(Generated(prompt))

getFinancialInsights(account, txs, constructed, response) ==
    serviceCall([account |-> account, transactions |-> txs],
                constructed, response,
                "Unable to generate insights at this time.",
                "Error connecting to AI service.")

draftInvitationEmail(accountName, inviterName, inviteeEmail, constructed, response) ==
    serviceCall([accountName |-> accountName, inviterName |-> inviterName,
                 inviteeEmail |-> inviteeEmail],
                constructed, response,
                "Failed to generate draft.",
                "Error generating draft.")

\* History: a call of function fn in the given environment and how it settled
Called(fn, constructed, response, result) ==
    [fn |-> fn, constructed |-> constructed, response |-> response,
     result |-> result]

-----------------------------------------------------------------------------
(* SelectedAccountView: the insights *)

\* fetchInsights up to its await.  The account of the prompt is modelled by its
\* id; by is history, the user who was signed in.  When the constructor throws
\* the promise of fetchInsights is rejected and nothing is awaited.
SelectedAccountView_AiInsights ==
    /\ SelectedAccountViewShown
    /\ ~isAiLoading
    /\ isAiLoading' = TRUE
    /\ \E constructed \in BOOLEAN :
           IF constructed
           THEN /\ aiRequest' = [account |-> selectedAccount.id,
                                 transactions |-> filteredTransactions,
                                 by |-> CurrentUserId]
                /\ UNCHANGED lastCall
           ELSE /\ aiRequest' = Null
                /\ lastCall' =
                       Called("getFinancialInsights", FALSE, "none",
                              getFinancialInsights(selectedAccount.id,
                                                   filteredTransactions,
                                                   FALSE, "none"))
    /\ UNCHANGED << dataVars, filterVars, currentUser, isAuthModalOpen, activeTab,
                    selectedAccountId, isNewAccountModalOpen, txModalVars,
                    memberModalVars, currencyCode, weekOffset, aiInsights,
                    envVars >>
    /\ Commit

\* The request settles and fetchInsights goes on after its await.
fetchInsights_Resume ==
    /\ aiRequest # Null
    /\ \E response \in Responses :
           LET result == getFinancialInsights(aiRequest.account,
                                              aiRequest.transactions,
                                              TRUE, response)
           IN  /\ aiInsights' = [by |-> aiRequest.by] @@ result.value
               /\ lastCall' = Called("getFinancialInsights", TRUE, response, result)
    /\ isAiLoading' = FALSE
    /\ aiRequest' = Null
    /\ UNCHANGED << dataVars, filterVars, currentUser, isAuthModalOpen, activeTab,
                    selectedAccountId, isNewAccountModalOpen, txModalVars,
                    memberModalVars, currencyCode, weekOffset, envVars >>
    /\ Commit

SelectedAccountView_CloseInsights ==
    /\ SelectedAccountViewShown
    /\ aiInsights # Null
    /\ aiInsights' = Null
    /\ UNCHANGED << dataVars, filterVars, currentUser, isAuthModalOpen, activeTab,
                    selectedAccountId, isNewAccountModalOpen, txModalVars,
                    memberModalVars, currencyCode, weekOffset, isAiLoading,
                    aiRequest, lastCall, envVars >>
    /\ Commit

\* What is typed in the invitation box of EditMembersModal
InviteEmails == {"new@example.com"}

\* handleInviteEmail: the call of draftInvitationEmail and its settlement.  The
\* draft and the flag isDrafting are state of the modal; nothing of the state
\* of App is read or written after the await.
EditMembersModal_DraftInvite ==
    /\ EditMembersModalShown
    /\ \E inviteEmail \in InviteEmails, constructed \in BOOLEAN,
          response \in Responses :
           lastCall' =
               Called("draftInvitationEmail", constructed,
                      IF constructed THEN response ELSE "none",
                      draftInvitationEmail(
                          accountToManage.name,
                          IF currentUser = Null THEN "Someone" ELSE currentUser.name,
                          inviteEmail, constructed, response))
    /\ UNCHANGED << dataVars, filterVars, currentUser, isAuthModalOpen, activeTab,
                    selectedAccountId, isNewAccountModalOpen, txModalVars,
                    memberModalVars, currencyCode, weekOffset, aiInsights,
                    isAiLoading, aiRequest, envVars >>
    /\ Commit

-----------------------------------------------------------------------------
(* Sidebar: the display currency, shown to an administrator *)

Sidebar_SetCurrency ==
    /\ currentUser # Null
    /\ currentUser.isAdmin
    /\ \E code \in CurrencyCodes :
           /\ code # currencyCode
           /\ currencyCode' = code
    /\ UNCHANGED << dataVars, filterVars, currentUser, isAuthModalOpen, activeTab,
                    selectedAccountId, isNewAccountModalOpen, txModalVars,
                    memberModalVars, weekOffset, aiVars, envVars >>
    /\ Commit

Next ==
    \/ AuthModal_SignIn
    \/ Sidebar_SignOut
    \/ Sidebar_Nav
    \/ DashboardView_ViewAllAccounts
    \/ AccountsView_SelectAccount
    \/ SelectedAccountView_Back
    \/ AccountsView_NewAccount
    \/ NewAccountModal_Cancel
    \/ NewAccountModal_Create
    \/ SharingView_ManageTeam
    \/ SelectedAccountView_ManageTeam
    \/ EditMembersModal_Close
    \/ EditMembersModal_ChangeRole
    \/ EditMembersModal_AddUser
    \/ EditMembersModal_Remove
    \/ SelectedAccountView_AddTransaction
    \/ SelectedAccountView_EditTransaction
    \/ TransactionModal_Cancel
    \/ TransactionModal_Save
    \/ SelectedAccountView_Approve
    \/ SelectedAccountView_Reject
    \/ SelectedAccountView_SendComment
    \/ DashboardView_SetAccountFilter
    \/ SetDashboardSearch
    \/ SetDashboardTypeFilter
    \/ SetDashboardModeFilter

Spec == Init /\ [][Next]_vars

-----------------------------------------------------------------------------
(* Accounts and teams: sign-in, navigation, account creation and member       *)
(* management, started on an empty localStorage.                              *)

NextTeam ==
    \/ AuthModal_SignIn
    \/ Sidebar_SignOut
    \/ Sidebar_Nav
    \/ DashboardView_ViewAllAccounts
    \/ AccountsView_SelectAccount
    \/ SelectedAccountView_Back
    \/ AccountsView_NewAccount
    \/ NewAccountModal_Cancel
    \/ NewAccountModal_Create
    \/ SharingView_ManageTeam
    \/ SelectedAccountView_ManageTeam
    \/ EditMembersModal_Close
    \/ EditMembersModal_ChangeRole
    \/ EditMembersModal_AddUser
    \/ EditMembersModal_Remove

SpecTeam == Init /\ [][NextTeam]_vars

-----------------------------------------------------------------------------
(* The application started on a localStorage that an earlier session left:    *)
(* the useState initialisers read the stored accounts and transactions.       *)

\* acc1: u1 owns it, u2 is an editor, u3 a viewer.  acc2: u3 owns it alone.
StoredAccounts ==
    << [id |-> "acc1", name |-> "Travel", ownerId |-> "u1",
        members |-> << [userId |-> "u2", role |-> EDITOR],
                       [userId |-> "u3", role |-> VIEWER] >>],
       [id |-> "acc2", name |-> "Travel", ownerId |-> "u3", members |-> << >>] >>

InitStored(storedUser, storedAccounts, storedTransactions) ==
    InitFrom([EmptyStorage EXCEPT
                  !.exppro_user = JSONstringify(storedUser),
                  !.exppro_accounts = JSONstringifyArray(storedAccounts),
                  !.exppro_transactions = JSONstringifyArray(storedTransactions)])

(* The ledger: sign-in, navigation and the transaction workflow on the stored *)
(* accounts.                                                                  *)

InitLedger == InitStored(Null, StoredAccounts, << >>)

NextLedger ==
    \/ AuthModal_SignIn
    \/ Sidebar_SignOut
    \/ Sidebar_Nav
    \/ DashboardView_ViewAllAccounts
    \/ AccountsView_SelectAccount
    \/ SelectedAccountView_Back
    \/ SelectedAccountView_AddTransaction
    \/ SelectedAccountView_EditTransaction
    \/ TransactionModal_Cancel
    \/ TransactionModal_Save
    \/ SelectedAccountView_Approve
    \/ SelectedAccountView_Reject

SpecLedger == InitLedger /\ [][NextLedger]_vars

-----------------------------------------------------------------------------
(* The workflow of one shared account: the transaction workflow and the       *)
(* comments while the owner changes the roles of the team.                    *)

InitWorkflow == InitStored(Null, SubSeq(StoredAccounts, 1, 1), << >>)

NextWorkflow ==
    \/ AuthModal_SignIn
    \/ Sidebar_SignOut
    \/ Sidebar_Nav
    \/ AccountsView_SelectAccount
    \/ SelectedAccountView_Back
    \/ SharingView_ManageTeam
    \/ SelectedAccountView_ManageTeam
    \/ EditMembersModal_Close
    \/ EditMembersModal_ChangeRole
    \/ EditMembersModal_AddUser
    \/ EditMembersModal_Remove
    \/ SelectedAccountView_AddTransaction
    \/ SelectedAccountView_EditTransaction
    \/ TransactionModal_Cancel
    \/ TransactionModal_Save
    \/ SelectedAccountView_Approve
    \/ SelectedAccountView_Reject
    \/ SelectedAccountView_SendComment

SpecWorkflow == InitWorkflow /\ [][NextWorkflow]_vars

-----------------------------------------------------------------------------
(* The dashboard: the figures and the lists that the filters produce from a   *)
(* stored ledger, across sign-in and sign-out.                                *)

\* Two approved transactions of acc1 and a pending one of acc2
StoredTransactions ==
    << [id |-> 1, accountId |-> "acc1", amount |-> 7, type |-> CREDIT,
        paymentMode |-> CASH, comment |-> << "B", "a" >>, date |-> 2,
        status |-> APPROVED, comments |-> << >>, createdBy |-> "u1"],
       [id |-> 2, accountId |-> "acc1", amount |-> 5, type |-> DEBIT,
        paymentMode |-> ONLINE, comment |-> << "a" >>, date |-> 1,
        status |-> APPROVED, comments |-> << >>, createdBy |-> "u2"],
       [id |-> 3, accountId |-> "acc2", amount |-> 5, type |-> CREDIT,
        paymentMode |-> ONLINE, comment |-> << "a" >>, date |-> 2,
        status |-> PENDING, comments |-> << >>, createdBy |-> "u3"] >>

InitDashboard == InitStored(Null, StoredAccounts, StoredTransactions)

NextDashboard ==
    \/ AuthModal_SignIn
    \/ Sidebar_SignOut
    \/ Sidebar_Nav
    \/ AccountsView_SelectAccount
    \/ SelectedAccountView_Back
    \/ DashboardView_SetAccountFilter
    \/ SetDashboardSearch
    \/ SetDashboardTypeFilter
    \/ SetDashboardModeFilter

SpecDashboard == InitDashboard /\ [][NextDashboard]_vars

(* The transaction form: u1 is signed in from the stored session and submits   *)
(* whatever the form accepts.                                                 *)

InitForm == InitStored(DefaultUsers[1], StoredAccounts, << >>)

NextForm ==
    \/ Sidebar_Nav
    \/ AccountsView_SelectAccount
    \/ SelectedAccountView_Back
    \/ SelectedAccountView_AddTransaction
    \/ SelectedAccountView_EditTransaction
    \/ TransactionModal_Cancel
    \/ TransactionModal_SaveAny

SpecForm == InitForm /\ [][NextForm]_vars

(* The worked example of the figures: a credit of 500 dated 2024-01-02 and a   *)
(* debit of 200 dated 2024-01-01, both approved, stored in either order, with *)
(* or without a pending transaction beside them.  A date is modelled by its   *)
(* day of January 2024; the id of a transaction by its place in the order of  *)
(* creation, which is the stored order (saveTransaction appends).             *)

ExampleCredit ==
    [accountId |-> "acc1", amount |-> 500, type |-> CREDIT, paymentMode |-> CASH,
     comment |-> << "B", "a" >>, date |-> 2, status |-> APPROVED,
     comments |-> << >>, createdBy |-> "u1"]

ExampleDebit ==
    [accountId |-> "acc1", amount |-> 200, type |-> DEBIT, paymentMode |-> ONLINE,
     comment |-> << "a" >>, date |-> 1, status |-> APPROVED,
     comments |-> << >>, createdBy |-> "u2"]

ExamplePending ==
    [accountId |-> "acc1", amount |-> 50, type |-> DEBIT, paymentMode |-> ONLINE,
     comment |-> << "a" >>, date |-> 2, status |-> PENDING,
     comments |-> << >>, createdBy |-> "u1"]

\* The stored transactions of a ledger created in the order given
WithIds(ledger) ==
    [i \in DOMAIN ledger |-> [id |-> i] @@ ledger[i]]

ExampleLedgers ==
    LET rows == << ExampleCredit, ExampleDebit, ExamplePending >>
        orders == { o \in UNION {[1..n -> 1..3] : n \in 2..3} :
                       /\ \A i, j \in DOMAIN o : i # j => o[i] # o[j]
                       /\ {1, 2} \subseteq Range(o) }
    IN  { WithIds([i \in DOMAIN o |-> rows[o[i]]]) : o \in orders }

InitExample ==
    \E ledger \in ExampleLedgers :
        InitStored(DefaultUsers[1], StoredAccounts, ledger)

NextExample ==
    \/ Sidebar_Nav
    \/ AccountsView_SelectAccount
    \/ SelectedAccountView_Back
    \/ DashboardView_SetAccountFilter
    \/ SetDashboardSearch
    \/ SetDashboardTypeFilter
    \/ SetDashboardModeFilter

SpecExample == InitExample /\ [][NextExample]_vars

(* The threads: the two stored transactions of acc1, the first with a comment *)
(* that u2 left, edited, decided and commented by whoever signs in.           *)

StoredThread ==
    << [StoredTransactions[1] EXCEPT
           !.comments = << [id |-> "c0", userId |-> "u2", userName |-> "Jane Manager",
                            text |-> << "o", "k" >>] >>],
       [StoredTransactions[2] EXCEPT !.status = PENDING] >>

InitThread == InitStored(Null, SubSeq(StoredAccounts, 1, 1), StoredThread)

NextThread ==
    \/ AuthModal_SignIn
    \/ Sidebar_SignOut
    \/ Sidebar_Nav
    \/ AccountsView_SelectAccount
    \/ SelectedAccountView_Back
    \/ SelectedAccountView_EditTransaction
    \/ TransactionModal_Cancel
    \/ TransactionModal_Save
    \/ SelectedAccountView_Approve
    \/ SelectedAccountView_Reject
    \/ SelectedAccountView_SendComment

SpecThread == InitThread /\ [][NextThread]_vars

(* The door: sign-in, registration and sign-out on the stored accounts.       *)

\* The page is loaded with nobody or with u1 in the stored session
InitAuth ==
    \E storedUser \in {Null, DefaultUsers[1]} :
        InitStored(storedUser, StoredAccounts, << >>)

NextAuth ==
    \/ AuthModal_SignInAny
    \/ AuthModal_SignUp
    \/ AuthModal_SendResetLink
    \/ Sidebar_SignOut
    \/ Sidebar_Nav
    \/ AccountsView_SelectAccount
    \/ SelectedAccountView_Back

SpecAuth == InitAuth /\ [][NextAuth]_vars

(* The records: users register, sign in and out, create accounts, create and  *)
(* edit transactions and remove members of the stored account.                *)

InitRecords == InitStored(Null, SubSeq(StoredAccounts, 1, 1), << >>)

NextRecords ==
    \/ AuthModal_SignIn
    \/ AuthModal_SignUp
    \/ Sidebar_SignOut
    \/ Sidebar_Nav
    \/ AccountsView_NewAccount
    \/ NewAccountModal_Create
    \/ AccountsView_SelectAccount
    \/ SelectedAccountView_ManageTeam
    \/ EditMembersModal_Remove
    \/ SelectedAccountView_AddTransaction
    \/ SelectedAccountView_EditTransaction
    \/ TransactionModal_Save

SpecRecords == InitRecords /\ [][NextRecords]_vars

(* The references: from an empty application, a user registers or signs in,   *)
(* creates an account, adds members to it and creates a transaction in it.    *)

NextReferences ==
    \/ AuthModal_SignIn
    \/ AuthModal_SignUp
    \/ Sidebar_Nav
    \/ AccountsView_NewAccount
    \/ NewAccountModal_Create
    \/ AccountsView_SelectAccount
    \/ SelectedAccountView_ManageTeam
    \/ EditMembersModal_AddUser
    \/ EditMembersModal_Close
    \/ SelectedAccountView_AddTransaction
    \/ TransactionModal_Save

SpecReferences == Init /\ [][NextReferences]_vars

(* The balances: u1 is signed in on a stored ledger of three approved         *)
(* transactions of acc1, of one unit or of the first amount whose sum with    *)
(* one unit is rounded.                                                       *)

BalanceLedgers ==
    LET rows == { [accountId |-> "acc1", amount |-> a, type |-> ty,
                   paymentMode |-> ONLINE, comment |-> << "a" >>, date |-> d,
                   status |-> APPROVED, comments |-> << >>, createdBy |-> "u1"] :
                  a \in {1, MaxExactInteger}, ty \in TransactionType, d \in {1, 2} }
    IN  { WithIds(ledger) : ledger \in [1..3 -> rows] }

InitBalance ==
    \E ledger \in BalanceLedgers :
        InitStored(DefaultUsers[1], StoredAccounts, ledger)

NextBalance ==
    \/ Sidebar_Nav
    \/ AccountsView_SelectAccount
    \/ SelectedAccountView_Back
    \/ SetDashboardTypeFilter

SpecBalance == InitBalance /\ [][NextBalance]_vars

(* The figures: u1 is signed in from the stored session and works on the      *)
(* The chart: the week buttons, the filters and the clock, from 22:00 UTC of   *)
(* day 20 on, in each time zone.                                               *)

ChartLedger ==
    WithIds(<< [accountId |-> "acc1", amount |-> 7, type |-> CREDIT,
                paymentMode |-> CASH, comment |-> << "B", "a" >>, date |-> 20,
                status |-> APPROVED, comments |-> << >>, createdBy |-> "u1"],
               [accountId |-> "acc1", amount |-> 5, type |-> DEBIT,
                paymentMode |-> ONLINE, comment |-> << "a" >>, date |-> 18,
                status |-> APPROVED, comments |-> << >>, createdBy |-> "u2"],
               [accountId |-> "acc1", amount |-> 3, type |-> CREDIT,
                paymentMode |-> ONLINE, comment |-> << "a" >>, date |-> 18,
                status |-> PENDING, comments |-> << >>, createdBy |-> "u1"],
               [accountId |-> "acc1", amount |-> 2, type |-> DEBIT,
                paymentMode |-> CASH, comment |-> << "a" >>, date |-> 12,
                status |-> APPROVED, comments |-> << >>, createdBy |-> "u1"] >>)

InitChart ==
    \E zone \in TimeZones :
        InitAt([EmptyStorage EXCEPT
                    !.exppro_user = JSONstringify(DefaultUsers[1]),
                    !.exppro_accounts = JSONstringifyArray(StoredAccounts),
                    !.exppro_transactions = JSONstringifyArray(ChartLedger)],
               zone, LastInstant - MaxHours)

NextChart ==
    \/ Tick
    \/ Sidebar_Nav
    \/ DashboardView_PreviousWeek
    \/ DashboardView_NextWeek
    \/ DashboardView_Today
    \/ SetDashboardTypeFilter

SpecChart == InitChart /\ [][NextChart]_vars

(* The insights: sign-in, navigation, the insights of an account and the       *)
(* invitation draft, on the stored accounts and transactions.                  *)

InitInsights == InitStored(Null, StoredAccounts, StoredTransactions)

NextInsights ==
    \/ AuthModal_SignIn
    \/ Sidebar_SignOut
    \/ Sidebar_Nav
    \/ AccountsView_SelectAccount
    \/ SelectedAccountView_Back
    \/ SelectedAccountView_AiInsights
    \/ fetchInsights_Resume
    \/ SelectedAccountView_CloseInsights
    \/ SelectedAccountView_ManageTeam
    \/ EditMembersModal_Close
    \/ EditMembersModal_DraftInvite

SpecInsights == InitInsights /\ [][NextInsights]_vars

\* The request of generateContent settles (the client library gives every
\* request an outcome: a response or an error).
SpecInsightsFair == SpecInsights /\ WF_vars(fetchInsights_Resume)

(* The stored entries: from an empty storage or from one written by an         *)
(* earlier version (accounts with sharedWith), people sign in, register and    *)
(* sign out, the administrator changes the currency, an account and a          *)
(* transaction are created.                                                    *)

LegacyStorage ==
    [EmptyStorage EXCEPT
         !.exppro_accounts =
             JSONstringifyArray(<< [id |-> "acc1", name |-> "Travel",
                                    ownerId |-> "u1", sharedWith |-> << "u2" >>] >>),
         !.exppro_currency = StringItem("EUR")]

InitPersistence == \E storage \in {EmptyStorage, LegacyStorage} : InitFrom(storage)

NextPersistence ==
    \/ AuthModal_SignIn
    \/ AuthModal_SignUp
    \/ Sidebar_SignOut
    \/ Sidebar_Nav
    \/ Sidebar_SetCurrency
    \/ AccountsView_NewAccount
    \/ NewAccountModal_Create
    \/ AccountsView_SelectAccount
    \/ SelectedAccountView_AddTransaction
    \/ TransactionModal_Save

SpecPersistence == InitPersistence /\ [][NextPersistence]_vars

(* ledger while the filters change.                                           *)

InitStats == InitStored(DefaultUsers[1], StoredAccounts, StoredTransactions)

NextStats ==
    \/ Sidebar_Nav
    \/ AccountsView_SelectAccount
    \/ SelectedAccountView_Back
    \/ SetDashboardSearch
    \/ SetDashboardTypeFilter
    \/ SetDashboardModeFilter
    \/ SelectedAccountView_AddTransaction
    \/ SelectedAccountView_EditTransaction
    \/ TransactionModal_Cancel
    \/ TransactionModal_Save
    \/ SelectedAccountView_Approve
    \/ SelectedAccountView_Reject

SpecStats == InitStats /\ [][NextStats]_vars

-----------------------------------------------------------------------------
(* Properties of the roles and the teams (SpecTeam)                           *)

\* The userIds listed in the members of account a
MemberIds(a) == {a.members[i].userId : i \in DOMAIN a.members}

\* C2: for a signed-in user and a selected account, userPermissionInAccount is
\* OWNER when the user's id is the account's ownerId, otherwise the role of the
\* user's entry in the account's members, otherwise VIEWER; the role that
\* SharingView shows for each of the user's accounts follows the same rule, and
\* is the effective role when that account is the selected one.
EffectiveRoleFollowsRule ==
    /\ (currentUser # Null /\ selectedAccount # Null) =>
          /\ selectedAccount.ownerId = currentUser.id =>
                 userPermissionInAccount = OWNER
          /\ selectedAccount.ownerId # currentUser.id =>
                 /\ \A m \in Range(selectedAccount.members) :
                        m.userId = currentUser.id => userPermissionInAccount = m.role
                 /\ currentUser.id \notin MemberIds(selectedAccount) =>
                        userPermissionInAccount = VIEWER
          /\ myRole(selectedAccount) = userPermissionInAccount
    /\ \A acc \in Range(myAccounts) :
          /\ acc.ownerId = currentUser.id => myRole(acc) = OWNER
          /\ acc.ownerId # currentUser.id =>
                 /\ \A m \in Range(acc.members) :
                        m.userId = currentUser.id => myRole(acc) = m.role
                 /\ currentUser.id \notin MemberIds(acc) => myRole(acc) = VIEWER

\* A member who is not the owner has opened an account in which the team lists
\* them as EDITOR, and the owner's role in that account is shown elsewhere.
EditorMemberHasSelected ==
    /\ currentUser # Null
    /\ selectedAccount # Null
    /\ selectedAccount.ownerId # currentUser.id
    /\ [userId |-> currentUser.id, role |-> EDITOR] \in Range(selectedAccount.members)
    /\ userPermissionInAccount = EDITOR

\* C9: in every account, the ownerId is not the userId of any entry of members.
OwnerNeverInMembers ==
    \A a \in Range(accounts) : a.ownerId \notin MemberIds(a)

\* A user was added to the team of an account that now has two members.
MemberAddedToTeam ==
    /\ lastChange.op = "shareAccount"
    /\ lastChange.from = "none"
    /\ \E a \in Range(accounts) :
          /\ a.id = lastChange.acc
          /\ Len(a.members) = 2
          /\ lastChange.user \in MemberIds(a)

\* Each userId has at most one entry in the members of every account
MembersUnique ==
    \A a \in Range(accounts) :
        \A i, j \in DOMAIN a.members :
            a.members[i].userId = a.members[j].userId => i = j

\* A step that gives another role to a user who is a member before and after it
\* leaves exactly one entry for that user and the entries of the others as they
\* were, in the same order.
ReRoleReplacesEntry ==
    \A k \in DOMAIN accounts :
        \A i \in DOMAIN accounts[k].members :
            LET uid == accounts[k].members[i].userId
                after == accounts'[k].members
                others(ms) == SelectSeq(ms, LAMBDA m : m.userId # uid)
            IN  (\E j \in DOMAIN after :
                     /\ after[j].userId = uid
                     /\ after[j].role # accounts[k].members[i].role)
                => /\ Cardinality({j \in DOMAIN after : after[j].userId = uid}) = 1
                   /\ others(after) = others(accounts[k].members)
                   /\ Len(after) = Len(accounts[k].members)

\* C10: in every reachable state each userId appears at most once in the
\* members of every account, and shareAccount for a user who is already a member replaces that member's entry
\* with the new role and leaves the entries of the other members unchanged.
MembersUniqueAndReplaced ==
    []MembersUnique /\ [][ReRoleReplacesEntry]_vars

\* The role of a member was changed in a team of two.
MemberReRoled ==
    /\ lastChange.op = "shareAccount"
    /\ lastChange.from \in {VIEWER, EDITOR}
    /\ \E a \in Range(accounts) :
          /\ a.id = lastChange.acc
          /\ Len(a.members) = 2
          /\ \E m \in Range(a.members) :
                 m.userId = lastChange.user /\ m.role # lastChange.from

\* C7: the members of an account change only in a step taken while the current
\* user is the owner of that account.
MembersChangeOnlyByOwner ==
    [][\A k \in DOMAIN accounts :
           accounts'[k].members # accounts[k].members
               => CurrentUserId = accounts[k].ownerId]_vars

-----------------------------------------------------------------------------
(* Properties of the transaction workflow (SpecLedger, SpecWorkflow)          *)

\* The step is a call of saveTransaction that passes its guard and takes the
\* branch of an existing transaction.
SaveEdits ==
    /\ TransactionModal_Save
    /\ currentUser # Null
    /\ selectedAccountId # NullId
    /\ transactionToEdit # Null

\* C3: whenever saveTransaction edits an existing transaction (it runs with
\* transactionToEdit set), the status of that transaction is PENDING afterwards,
\* whatever it was before and whatever values are submitted.
EditResetsStatusToPending ==
    [][SaveEdits =>
           /\ \E i \in DOMAIN transactions : transactions[i].id = transactionToEdit.id
           /\ \A i \in DOMAIN transactions :
                  transactions[i].id = transactionToEdit.id
                      => transactions'[i].status = PENDING]_vars

\* An approved transaction was edited and waits for a decision again.
ApprovedWasEdited ==
    /\ lastChange.op = "saveTransaction"
    /\ lastChange.from = APPROVED
    /\ \E t \in Range(transactions) : t.id = lastChange.tx /\ t.status = PENDING

\* C4: a transaction is PENDING when it is created; a transaction that is
\* APPROVED or REJECTED changes status only to PENDING and only in a step in
\* which saveTransaction edits it: never from APPROVED to REJECTED or back.
DecidedLeavesOnlyByEdit ==
    [][/\ \A i \in DOMAIN transactions' :
              i \notin DOMAIN transactions => transactions'[i].status = PENDING
       /\ \A i \in DOMAIN transactions :
              (/\ transactions[i].status \in {APPROVED, REJECTED}
               /\ transactions'[i].status # transactions[i].status)
              => /\ transactions'[i].status = PENDING
                 /\ SaveEdits
                 /\ transactionToEdit.id = transactions[i].id]_vars

\* A rejected transaction was edited, and is shown to a user who may decide it.
RejectedWasEdited ==
    /\ lastChange.op = "saveTransaction"
    /\ lastChange.from = REJECTED
    /\ SelectedAccountViewShown
    /\ \E t \in Range(decidableRows) : t.id = lastChange.tx

\* The role of the current user in the account with id accountId
roleInAccount(accountId) ==
    LET acc == Find(accounts, LAMBDA a : a.id = accountId)
    IN  IF acc = Null \/ currentUser = Null THEN VIEWER ELSE myRole(acc)

\* C5: the status of a transaction becomes APPROVED or REJECTED only in a step
\* taken while the role of the current user in the account of the transaction
\* is OWNER or EDITOR.
DecidedOnlyByOwnerOrEditor ==
    [][\A i \in DOMAIN transactions :
           (/\ transactions'[i].status \in {APPROVED, REJECTED}
            /\ transactions'[i].status # transactions[i].status)
           => /\ currentUser # Null
              /\ roleInAccount(transactions[i].accountId) \in {OWNER, EDITOR}]_vars

\* A member whom the team lists as EDITOR has rejected a transaction.
EditorMemberRejected ==
    /\ lastChange.op = "updateTransactionStatus"
    /\ \E t \in Range(transactions) :
          /\ t.id = lastChange.tx
          /\ t.status = REJECTED
          /\ currentUser # Null
          /\ \E a \in Range(accounts) :
                 /\ a.id = t.accountId
                 /\ [userId |-> currentUser.id, role |-> EDITOR] \in Range(a.members)

\* comments' is comments, or comments with one comment appended
AppendedOrSame(before, after) ==
    \/ after = before
    \/ /\ Len(after) = Len(before) + 1
       /\ SubSeq(after, 1, Len(before)) = before

\* C6: a transaction is created or edited only in a step taken while the role of
\* the current user in the account of the transaction is OWNER or EDITOR; in a
\* step taken by anybody else no transaction is removed and a transaction
\* changes at most by one comment appended to its comments.
SavedOnlyByOwnerOrEditor ==
    [][/\ (TransactionModal_Save /\ currentUser # Null /\ selectedAccountId # NullId)
              => /\ roleInAccount(selectedAccountId) \in {OWNER, EDITOR}
                 /\ transactionToEdit # Null
                        => \A t \in Range(transactions) :
                               t.id = transactionToEdit.id
                                   => t.accountId = selectedAccountId
       /\ Len(transactions') >= Len(transactions)
       /\ \A i \in DOMAIN transactions' :
              roleInAccount(transactions'[i].accountId) \notin {OWNER, EDITOR}
              => /\ i \in DOMAIN transactions
                 /\ [transactions'[i] EXCEPT !.comments = transactions[i].comments]
                        = transactions[i]
                 /\ AppendedOrSame(transactions[i].comments,
                                   transactions'[i].comments)]_vars

\* A VIEWER of the account has commented a transaction that an EDITOR created.
ViewerCommented ==
    /\ lastChange.op = "addComment"
    /\ currentUser # Null
    /\ selectedAccount # Null
    /\ userPermissionInAccount = VIEWER
    /\ \E t \in Range(transactions) :
          /\ t.id = lastChange.tx
          /\ t.accountId = selectedAccountId
          /\ t.createdBy # currentUser.id
          /\ \E c \in Range(t.comments) : c.userId = currentUser.id

-----------------------------------------------------------------------------
(* Properties of the figures and of the lists (SpecStats, SpecDashboard)      *)

\* The sum of the amounts of the transactions of txs at the positions in idx
RECURSIVE SumOfAmounts(_, _)
SumOfAmounts(txs, idx) ==
    IF idx = {} THEN 0
    ELSE LET i == CHOOSE j \in idx : TRUE
         IN  txs[i].amount + SumOfAmounts(txs, idx \ {i})

\* The sum of the amounts of the approved transactions of type type in txs
ApprovedSum(txs, type) ==
    SumOfAmounts(txs, {i \in DOMAIN txs :
                           txs[i].status = APPROVED /\ txs[i].type = type})

\* The figures count the approved transactions only
FiguresAreApprovedSums ==
    /\ \A listed \in {filteredTransactions}, shown \in {stats} :
           /\ shown.income = ApprovedSum(listed, CREDIT)
           /\ shown.expenses = ApprovedSum(listed, DEBIT)
           /\ shown.balance = ApprovedSum(listed, CREDIT) - ApprovedSum(listed, DEBIT)
    /\ \A acc \in Range(myAccounts) :
           \A own \in {SelectSeq(transactions, LAMBDA t : t.accountId = acc.id)} :
               cardBalance(acc) = ApprovedSum(own, CREDIT) - ApprovedSum(own, DEBIT)

\* The step changes transactions only by moving some between PENDING and
\* REJECTED and by adding some that are PENDING or REJECTED.
OnlyUndecidedChange ==
    /\ transactions' # transactions
    /\ Len(transactions') >= Len(transactions)
    /\ \A i \in DOMAIN transactions' :
           IF i \in DOMAIN transactions
           THEN \/ transactions'[i] = transactions[i]
                \/ /\ [transactions'[i] EXCEPT !.status = transactions[i].status]
                          = transactions[i]
                   /\ transactions[i].status \in {PENDING, REJECTED}
                   /\ transactions'[i].status \in {PENDING, REJECTED}
           ELSE transactions'[i].status \in {PENDING, REJECTED}

\* C1: in every reachable state stats.balance is the sum of the amounts of the
\* APPROVED CREDIT transactions of filteredTransactions minus the sum of the APPROVED DEBIT
\* ones (and so is the balance on an account's card, over the account's
\* transactions); a step that moves a transaction between PENDING and REJECTED
\* or adds a PENDING or REJECTED transaction changes none of income, expenses,
\* balance.
BalanceCountsApprovedOnly ==
    /\ []FiguresAreApprovedSums
    /\ [][OnlyUndecidedChange =>
              /\ stats' = stats
              /\ \A acc \in Range(myAccounts) :
                     cardBalance(acc)' = cardBalance(acc)]_vars

\* An approved credit, an approved debit and a transaction that was just
\* rejected are listed together, and the figures are those of the first two.
FiguresWithRejectedListed ==
    /\ lastChange.op = "updateTransactionStatus"
    /\ \E t \in Range(filteredTransactions) :
           t.id = lastChange.tx /\ t.status = REJECTED
    /\ \E t \in Range(filteredTransactions) : t.status = APPROVED /\ t.type = CREDIT
    /\ \E t \in Range(filteredTransactions) : t.status = APPROVED /\ t.type = DEBIT
    /\ stats = [income |-> 7, expenses |-> 5, balance |-> 2]

\* C8: every transaction of filteredTransactions belongs to an account that the
\* current user owns or is a member of.
FilteredAreOfMyAccounts ==
    \A t \in Range(filteredTransactions) :
        \E a \in Range(accounts) :
            /\ a.id = t.accountId
            /\ currentUser # Null
            /\ (a.ownerId = currentUser.id \/ currentUser.id \in MemberIds(a))

-----------------------------------------------------------------------------
(* Properties of the list and of the form (SpecForm, SpecExample)             *)

\* C11: filteredTransactions is ordered by date descending, and two entries
\* with the same date are ordered by id descending.
FilteredSortedByDateThenId ==
    \A i, j \in DOMAIN filteredTransactions :
        i < j =>
            LET a == filteredTransactions[i]
                b == filteredTransactions[j]
            IN  /\ (a.date # InvalidDate /\ b.date # InvalidDate) => a.date >= b.date
                /\ a.date = b.date => a.id > b.id

\* The transactions of the worked example
IsExampleCredit(t) ==
    t.type = CREDIT /\ t.amount = 500 /\ t.date = 2 /\ t.status = APPROVED

IsExampleDebit(t) ==
    t.type = DEBIT /\ t.amount = 200 /\ t.date = 1 /\ t.status = APPROVED

\* The approved transactions of the list are exactly those two
ExampleIsListed ==
    LET approved == SelectSeq(filteredTransactions, LAMBDA t : t.status = APPROVED)
    IN  /\ Len(approved) = 2
        /\ \E i, j \in 1..2 : IsExampleCredit(approved[i]) /\ IsExampleDebit(approved[j])

\* C12: whenever the approved transactions of the list are exactly the credit
\* of 500 dated 2024-01-02 and the debit of 200 dated 2024-01-01, the balance is
\* 300 and the credit is listed before the debit.
ExampleBalanceAndOrder ==
    ExampleIsListed =>
        /\ stats.balance = 300
        /\ \E i, j \in DOMAIN filteredTransactions :
               /\ i < j
               /\ IsExampleCredit(filteredTransactions[i])
               /\ IsExampleDebit(filteredTransactions[j])

\* The example is listed from a ledger that stores the debit before the credit
ExampleListedDebitStoredFirst ==
    /\ ExampleIsListed
    /\ selectedAccountId = "acc1"
    /\ \E i, j \in DOMAIN transactions :
           i < j /\ IsExampleDebit(transactions[i]) /\ IsExampleCredit(transactions[j])

\* C13: every entry of every account's members list has the role VIEWER or
\* EDITOR; OWNER is never stored in a members list.
MemberRolesAreViewerOrEditor ==
    \A i \in DOMAIN accounts :
        \A j \in DOMAIN accounts[i].members :
            accounts[i].members[j].role \in {VIEWER, EDITOR}

\* An account whose team has a viewer and an editor
TeamHasViewerAndEditor ==
    \E i \in DOMAIN accounts :
        \E j, k \in DOMAIN accounts[i].members :
            /\ accounts[i].members[j].role = VIEWER
            /\ accounts[i].members[k].role = EDITOR

\* The accounts of the next state are those of this state, each with the id
\* and the ownerId it has, followed by at most one new account; a new account
\* is owned by the current user and has no members.
AccountsKeepOwner ==
    /\ Len(accounts') \in {Len(accounts), Len(accounts) + 1}
    /\ \A i \in DOMAIN accounts :
           /\ accounts'[i].id = accounts[i].id
           /\ accounts'[i].ownerId = accounts[i].ownerId
    /\ Len(accounts') = Len(accounts) + 1 =>
           /\ currentUser # Null
           /\ accounts'[Len(accounts')].ownerId = currentUser.id
           /\ accounts'[Len(accounts')].members = << >>

\* C14: createAccount appends an account whose ownerId is the current user's
\* id and whose members list is empty, appends nothing when no user is signed
\* in, and no operation changes the ownerId of an account.
OwnerSetAtCreationOnly == [][AccountsKeepOwner]_vars

\* An account created by u2 has a team while another user is signed in
OwnedAccountSharedAndVisited ==
    /\ currentUser # Null
    /\ \E i \in DOMAIN accounts :
           /\ accounts[i].ownerId = "u2"
           /\ accounts[i].ownerId # currentUser.id
           /\ accounts[i].members # << >>

\* C18: every stored transaction has a positive amount.
AmountsArePositive ==
    \A i \in DOMAIN transactions : transactions[i].amount > 0

-----------------------------------------------------------------------------
(* Properties of the stored transactions and their threads (SpecThread)       *)

\* The fields in which two versions of a transaction differ
ChangedFields(t, u) == {f \in DOMAIN t : t[f] # u[f]}

\* The fields that a step changes in the transactions it keeps
FieldsChangedByStep ==
    UNION {ChangedFields(transactions[i], transactions'[i]) : i \in DOMAIN transactions}

TransactionsKeepIdentity ==
    /\ Len(transactions') >= Len(transactions)
    /\ \A i \in DOMAIN transactions :
           /\ transactions'[i].id = transactions[i].id
           /\ transactions'[i].accountId = transactions[i].accountId
           /\ transactions'[i].createdBy = transactions[i].createdBy
    /\ Cardinality({i \in DOMAIN transactions : transactions'[i] # transactions[i]}) <= 1
    /\ TransactionModal_Save =>
           FieldsChangedByStep \subseteq
               {"amount", "type", "paymentMode", "comment", "date", "status"}
    /\ (SelectedAccountView_Approve \/ SelectedAccountView_Reject) =>
           FieldsChangedByStep \subseteq {"status"}
    /\ SelectedAccountView_SendComment =>
           FieldsChangedByStep \subseteq {"comments"}

\* C16: no step changes the id, accountId or createdBy of a transaction; a
\* save changes only amount, type, paymentMode, comment, date and status of the
\* edited transaction, approve and reject change only status, a sent comment
\* changes only comments; every step changes at most one transaction.
TransactionsChangeByWhitelist == [][TransactionsKeepIdentity]_vars

\* The stored transaction of u1 was edited, rejected and commented by others
StoredTransactionReworked ==
    /\ Len(transactions) >= 1
    /\ transactions[1].createdBy = "u1"
    /\ transactions[1].amount # StoredThread[1].amount
    /\ transactions[1].status = REJECTED
    /\ Len(transactions[1].comments) = 2

ThreadsOnlyGrow ==
    \A i \in DOMAIN transactions :
        \/ transactions'[i].comments = transactions[i].comments
        \/ /\ SelectedAccountView_SendComment
           /\ currentUser # Null
           /\ Len(transactions'[i].comments) = Len(transactions[i].comments) + 1
           /\ SubSeq(transactions'[i].comments, 1, Len(transactions[i].comments))
                  = transactions[i].comments
           /\ LET c == transactions'[i].comments[Len(transactions'[i].comments)]
              IN  c.userId = currentUser.id /\ c.userName = currentUser.name

\* C17: the comments of a transaction change only by a sent comment, which
\* adds exactly one comment at the end with the userId and userName of the
\* user signed in; no step removes, reorders or alters a comment.
CommentsAppendOnly == [][ThreadsOnlyGrow]_vars

\* A comment of u3 follows the stored comment of u2 on a transaction that was
\* edited afterwards
ThreadKeptAcrossEdit ==
    \E i \in DOMAIN transactions :
        /\ Len(transactions[i].comments) = 2
        /\ transactions[i].comments[1].userId = "u2"
        /\ transactions[i].comments[2].userId = "u3"
        /\ lastChange.op = "saveTransaction"
        /\ lastChange.tx = transactions[i].id

-----------------------------------------------------------------------------
(* Properties of sign-in and registration (SpecAuth)                          *)

\* What a step leaves alone when it is a call of handleLogin or handleRegister
\* from the form
OutsideAuth ==
    << accounts, transactions, filterVars, activeTab, selectedAccountId,
       isNewAccountModalOpen, txModalVars, memberModalVars >>

EmailsUnique ==
    \A i, j \in DOMAIN users : users[i].email = users[j].email => i = j

\* A step that is handleRegister(name, email, password) with an email in use
\* changes nothing; one with a free email appends the user and signs in.
RegisterRejectsEmailInUse ==
    \A name \in AuthNames, email \in AuthEmails, password \in LoginPasswords :
        (isAuthModalOpen /\ handleRegister(name, email, password)
             /\ UNCHANGED OutsideAuth) =>
            IF \E i \in DOMAIN users : users[i].email = email
            THEN UNCHANGED << users, currentUser, isAuthModalOpen >>
            ELSE /\ Len(users') = Len(users) + 1
                 /\ users'[Len(users')].email = email
                 /\ currentUser' = users'[Len(users')]

\* C19: handleRegister with an email that a user already has leaves users,
\* currentUser and the auth modal unchanged, and no two users share an email.
RegisteredEmailsStayUnique == []EmailsUnique /\ [][RegisterRejectsEmailInUse]_vars

\* The registration form is shown while a registered user exists
FormShownAfterRegistration ==
    /\ isAuthModalOpen
    /\ Len(users) > Len(DefaultUsers)

\* The users that handleLogin's test accepts for the submitted email and password
Matching(email, password) ==
    {i \in DOMAIN users : users[i].email = email /\ users[i].password = password}

LoginSetsMatchingUser ==
    \A email \in AuthEmails \cup LoginEmails, password \in LoginPasswords :
        (isAuthModalOpen /\ handleLogin(email, password)
             /\ UNCHANGED << users, lastChange, created >> /\ UNCHANGED OutsideAuth) =>
            /\ currentUser = Null
            /\ IF Matching(email, password) = {}
               THEN UNCHANGED vars
               ELSE /\ \E i \in Matching(email, password) : currentUser' = users[i]
                    /\ isAuthModalOpen' = FALSE
                    /\ UNCHANGED << users, lastChange, created >>
                    /\ UNCHANGED OutsideAuth

\* C20: handleLogin sets currentUser only to a user whose email and password
\* both equal the submitted ones; when no user matches, currentUser stays null,
\* the auth modal stays open and nothing else changes.
LoginOnlyWithMatchingCredentials == [][LoginSetsMatchingUser]_vars

\* Jane is signed in while a registered user has the password she has
SignedInAmongSharedPasswords ==
    /\ currentUser = DefaultUsers[2]
    /\ \E i \in DOMAIN users :
           /\ i > Len(DefaultUsers)
           /\ users[i].password = DefaultUsers[2].password

-----------------------------------------------------------------------------
(* Properties of the records (SpecRecords)                                    *)

\* The ids of the entities of a list
Ids(s) == {s[i].id : i \in DOMAIN s}

EntitiesKept ==
    /\ Ids(users) \subseteq Ids(users')
    /\ Ids(accounts) \subseteq Ids(accounts')
    /\ Ids(transactions) \subseteq Ids(transactions')

\* C15: every user id, account id and transaction id of a state is in the
\* next state, whatever the step: no user, account or transaction is destroyed.
EntitiesNeverDestroyed == [][EntitiesKept]_vars

\* After a registration, a new account, an edited transaction and the removal
\* of every member of the stored account, nobody is signed in
AllKeptAfterRemovalEditAndSignOut ==
    /\ currentUser = Null
    /\ Len(users) > Len(DefaultUsers)
    /\ Len(accounts) = 2
    /\ accounts[1].members = << >>
    /\ Len(transactions) = 1
    /\ lastChange.op = "saveTransaction"
    /\ lastChange.from # "none"

-----------------------------------------------------------------------------
(* Properties of the selection, the references and the modals                 *)

\* C26: while an account is selected, a user is signed in and the selected
\* account is one that the user owns or is a member of.
SelectionIsOfCurrentUser ==
    selectedAccountId # NullId =>
        /\ currentUser # Null
        /\ \E i \in DOMAIN myAccounts : myAccounts[i].id = selectedAccountId

\* A member who does not own the account has it selected
MemberHasAccountSelected ==
    /\ selectedAccountId # NullId
    /\ currentUser # Null
    /\ selectedAccount # Null
    /\ selectedAccount.ownerId # currentUser.id
    /\ IsMemberOf(selectedAccount, currentUser.id)

\* C27: every transaction's accountId is the id of an account and its
\* createdBy the id of a user; every account's ownerId and every members
\* entry's userId is the id of a user.
ReferencesResolve ==
    /\ \A i \in DOMAIN transactions :
           /\ transactions[i].accountId \in Ids(accounts)
           /\ transactions[i].createdBy \in Ids(users)
    /\ \A i \in DOMAIN accounts :
           /\ accounts[i].ownerId \in Ids(users)
           /\ \A j \in DOMAIN accounts[i].members :
                  accounts[i].members[j].userId \in Ids(users)

\* A registered user owns an account with a member and a transaction of their
\* own in it
RegisteredUserOwnsSharedLedger ==
    \E i \in DOMAIN accounts, k \in DOMAIN transactions :
        /\ accounts[i].ownerId \notin Ids(DefaultUsers)
        /\ accounts[i].members # << >>
        /\ transactions[k].accountId = accounts[i].id
        /\ transactions[k].createdBy = accounts[i].ownerId

\* C29: the auth modal is open exactly when no user is signed in.
AuthModalOpenIffSignedOut == isAuthModalOpen <=> (currentUser = Null)

\* A user registered in this session is signed in and the modal is closed
RegisteredUserSignedIn ==
    /\ ~isAuthModalOpen
    /\ currentUser # Null
    /\ currentUser.id \notin Ids(DefaultUsers)

\* C30: while the member-management modal is open, the members of the
\* accountToManage snapshot are the members of the account with the same id in
\* accounts.
SnapshotMembersMatchAccount ==
    (isEditMembersModalOpen /\ accountToManage # Null) =>
        \E i \in DOMAIN accounts :
            /\ accounts[i].id = accountToManage.id
            /\ accounts[i].members = accountToManage.members

\* The modal is open after a removal that left a member in the team
ModalOpenAfterRemoval ==
    /\ isEditMembersModalOpen
    /\ accountToManage # Null
    /\ accountToManage.members # << >>
    /\ lastChange.op = "removeMember"
    /\ lastChange.acc = accountToManage.id

\* C28: when an account is selected and the search, type and mode filters are
\* at their defaults, stats.balance is the balance on the card of the account.
BalanceEqualsCardBalance ==
    (/\ selectedAccount # Null
     /\ dashboardSearch = << >>
     /\ dashboardTypeFilter = All
     /\ dashboardModeFilter = All) =>
        stats.balance = cardBalance(selectedAccount)

-----------------------------------------------------------------------------
(* The chart of the dashboard *)

\* The buckets of the week that ends k weeks after the date today, over txs
WeekOf(today, k, txs) ==
    [i \in 1..7 |->
        LET date == (today - 7) + i + (7 * k)
            onDate(type) == {j \in DOMAIN txs :
                                 /\ txs[j].date = date
                                 /\ txs[j].status = APPROVED
                                 /\ txs[j].type = type}
        IN  [name |-> date,
             credit |-> SumOfAmounts(txs, onDate(CREDIT)),
             debit |-> SumOfAmounts(txs, onDate(DEBIT))]]

\* C21: for every week offset the chart has exactly 7 buckets, one for each
\* consecutive date from today - 6 + 7k to today + 7k, each with the sums of the
\* APPROVED credits and debits of filteredTransactions of that date.  Today is
\* read as the present date in UTC or in the time zone of the browser.
ChartShowsWeekEndingToday ==
    DashboardViewShown =>
        \E today \in {toISODate(clock), toLocalDate(timeZone, clock)} :
            chartData = WeekOf(today, weekOffset, filteredTransactions)

-----------------------------------------------------------------------------
(* The functions of services/geminiService.ts *)

Placeholder(fn) ==
    IF fn = "getFinancialInsights" THEN Text("Error connecting to AI service.")
    ELSE Text("Error generating draft.")

\* C22: getFinancialInsights and draftInvitationEmail never throw or reject:
\* every call returns a string, and the fixed placeholder of the function when
\* the call failed.
ServiceCallsNeverReject ==
    lastCall # NoCall =>
        /\ lastCall.result.settled = "fulfilled"
        /\ (~lastCall.constructed \/ lastCall.response = "failure") =>
               lastCall.result.value = Placeholder(lastCall.fn)

-----------------------------------------------------------------------------
(* fetchInsights *)

\* C23: a call of fetchInsights sets isAiLoading before the request and, once
\* the request has an outcome, sets aiInsights to the returned string and
\* isAiLoading back to false; while isAiLoading is true no second request is
\* started; a step of fetchInsights changes nothing else of the state.
FetchInsightsCompletes ==
    /\ [](aiRequest # Null => isAiLoading)
    /\ [][isAiLoading => aiRequest' \in {aiRequest, Null}]_vars
    /\ [][(isAiLoading /\ ~isAiLoading') =>
              /\ aiInsights' # Null
              /\ lastCall'.result.settled = "fulfilled"
              /\ aiInsights'.text = lastCall'.result.value.text]_vars
    /\ [][isAiLoading' # isAiLoading =>
              UNCHANGED << dataVars, filterVars, currentUser, isAuthModalOpen,
                           activeTab, selectedAccountId, isNewAccountModalOpen,
                           txModalVars, memberModalVars, currencyCode,
                           weekOffset >>]_vars
    /\ isAiLoading ~> ~isAiLoading

-----------------------------------------------------------------------------
(* The insights that are shown *)

\* C25: whenever aiInsights is not null while an account is selected, the text
\* was generated from the transactions of the account that is selected now, as
\* the user who is signed in now sees them.
InsightsAreOfSelectedAccount ==
    (SelectedAccountViewShown /\ aiInsights # Null /\ aiInsights.text = "generated") =>
        /\ aiInsights.prompt.account = selectedAccountId
        /\ aiInsights.by = CurrentUserId

-----------------------------------------------------------------------------
(* The stored entries *)

====
